---------------------------- MODULE Spec2Model ----------------------------
(***************************************************************************)
(* A model of mccmdhl2, the Minecraft Bedrock command parser and           *)
(* autocompleter.                                                          *)
(*                                                                         *)
(* src/mccmdhl2/nodes.py holds the node classes and the grammar built by   *)
(* command().  The modules it imports (parser, reader, marker,             *)
(* autocompleter) are not part of src/: the Reader primitives, the Marker  *)
(* and the parse engine are modelled from spec.md, sections 4.A, 4.B, 4.D  *)
(* and 4.E.                                                                *)
(*                                                                         *)
(* A source text is a sequence of one-character strings; a reader position *)
(* is the index of the next character (offset + 1).                        *)
(***************************************************************************)
EXTENDS Integers, Sequences, FiniteSets, TLC

\* ------------------------------------------------------------------------
\* Characters
\* ------------------------------------------------------------------------
NL  == "\n"
CR  == "\r"
TAB == "\t"
DQ  == "\""
BSL == "\\"
EOF == "<EOF>"

DIGITS == {"0", "1", "2", "3", "4", "5", "6", "7", "8", "9"}
SIGNS == {"+", "-"}
TERMINATORS == {" ", NL, CR, EOF}
NAMESPACEDID == DIGITS \cup {":", ".", "_", "-"} \cup
    {"a", "b", "c", "d", "e", "f", "g", "h", "i", "j", "k", "l", "m",
     "n", "o", "p", "q", "r", "s", "t", "u", "v", "w", "x", "y", "z"}

DigitVal == ("0" :> 0) @@ ("1" :> 1) @@ ("2" :> 2) @@ ("3" :> 3) @@ ("4" :> 4)
         @@ ("5" :> 5) @@ ("6" :> 6) @@ ("7" :> 7) @@ ("8" :> 8) @@ ("9" :> 9)

\* "".join(chars)
RECURSIVE Join(_)
Join(cs) == IF cs = <<>> THEN "" ELSE Head(cs) \o Join(Tail(cs))

\* ------------------------------------------------------------------------
\* Reader (spec.md 4.A)
\* ------------------------------------------------------------------------
peek(s, p) == IF p >= 1 /\ p <= Len(s) THEN s[p] ELSE EOF

\* The position after next(): the cursor does not move past the end.
next(s, p) == IF p <= Len(s) THEN p + 1 ELSE p

is_line_end(c) == c \in {NL, CR, EOF}

\* End of the greedy run of characters of S that starts at p.
RECURSIVE RunEnd(_, _, _)
RunEnd(s, p, S) == IF peek(s, p) \in S /\ p <= Len(s) THEN RunEnd(s, p + 1, S) ELSE p

\* End of the greedy run of characters not in S that starts at p.
RECURSIVE RunEndNot(_, _, _)
RunEndNot(s, p, S) == IF peek(s, p) \notin S THEN RunEndNot(s, p + 1, S) ELSE p

\* read_word(): [pos, val]; val may be the empty string.
read_word(s, p) ==
    LET e == RunEndNot(s, p, TERMINATORS)
    IN [pos |-> e, val |-> Join(SubSeq(s, p, e - 1))]

\* read_until_eol(): the rest of the line, the line end excluded.
read_until_eol(s, p) ==
    LET e == RunEndNot(s, p, {NL, CR, EOF})
    IN [pos |-> e, val |-> Join(SubSeq(s, p, e - 1))]

\* Value of the decimal digits s[p .. e-1].
RECURSIVE DecVal(_, _, _)
DecVal(s, p, e) == IF e <= p THEN 0 ELSE DecVal(s, p, e - 1) * 10 + DigitVal[s[e - 1]]

\* read_int(): optional sign, one or more digits.
read_int(s, p) ==
    LET q == IF peek(s, p) \in SIGNS THEN p + 1 ELSE p
        e == RunEnd(s, q, DIGITS)
        v == DecVal(s, q, e)
    IN IF e = q THEN [ok |-> FALSE, pos |-> q, val |-> 0]
       ELSE [ok |-> TRUE, pos |-> e, val |-> IF peek(s, p) = "-" THEN 0 - v ELSE v]

\* read_float(no_int_part_ok): optional sign, integer part (optional when
\* no_int_part_ok), optional fractional part; no exponent.  The value kept
\* is the signed integer part.
read_float(s, p, no_int_part_ok) ==
    LET q == IF peek(s, p) \in SIGNS THEN p + 1 ELSE p
        e == RunEnd(s, q, DIGITS)
        f == IF peek(s, e) = "." THEN RunEnd(s, e + 1, DIGITS) ELSE e
        v == DecVal(s, q, e)
        bad == \/ e = q /\ ~no_int_part_ok
               \/ e = q /\ f <= e + 1
    IN IF bad THEN [ok |-> FALSE, pos |-> q, val |-> 0]
       ELSE [ok |-> TRUE, pos |-> f, val |-> IF peek(s, p) = "-" THEN 0 - v ELSE v]


\* ------------------------------------------------------------------------
\* Parse rules of the node classes (src/mccmdhl2/nodes.py)
\*
\* A parse rule returns [ok, pos, val, err, fm, am, push]: whether it
\* matched, the reader position it left, the parsed value, the message key
\* of the failure it raised, and, for a SubparsingNode, the font marks and
\* autocompletion marks it appended to the Marker itself and the fonts it
\* left on the font stack.
\* ------------------------------------------------------------------------
NoVal == "<none>"

Ok(p, v) == [ok |-> TRUE, pos |-> p, val |-> v, err |-> "",
             fm |-> <<>>, am |-> <<>>, push |-> <<>>]

Raise(p, e) == [ok |-> FALSE, pos |-> p, val |-> NoVal, err |-> e,
                fm |-> <<>>, am |-> <<>>, push |-> <<>>]

FontMark(b, e, font) == [b |-> b, e |-> e, font |-> font]

\* AutoCompletingMark.from_node(begin, end, node, version)
AutoCompletingMark(b, e, n) == [b |-> b, e |-> e, node |-> n]

Char_parse(char, s, p) ==
    IF peek(s, p) = char THEN Ok(next(s, p), char)
    ELSE Raise(p, "error.expect.char")

Integer_parse(s, p) ==
    LET r == read_int(s, p)
    IN IF r.ok THEN Ok(r.pos, r.val) ELSE Raise(r.pos, "error.expect.int")

Float_parse(s, p) ==
    LET r == read_float(s, p, FALSE)
    IN IF r.ok THEN Ok(r.pos, r.val) ELSE Raise(r.pos, "error.expect.float")

OffsetFloat_parse(s, p) ==
    LET r == read_float(s, p, TRUE)
    IN IF r.ok THEN Ok(r.pos, r.val) ELSE Raise(r.pos, "error.expect.offset_float")

Word_parse(s, p) ==
    LET w == read_word(s, p)
    IN IF w.val = "" THEN Raise(w.pos, "error.expect.word") ELSE Ok(w.pos, w.val)

Boolean_parse(s, p) ==
    LET w == read_word(s, p)
    IN IF w.val # "true" /\ w.val # "false" THEN Raise(w.pos, "error.expect.bool")
       ELSE Ok(w.pos, w.val)

NamespacedId_parse(s, p) ==
    LET w == Word_parse(s, p)
    IN IF ~w.ok THEN w
       ELSE IF \E i \in p .. (w.pos - 1) : s[i] \notin NAMESPACEDID
            THEN Raise(w.pos, "error.syntax.id_invalid")
            ELSE w

\* A keyword that takes a missing word for its own.
Keyword_parse_empty_ok(word, s, p) ==
    LET w == read_word(s, p)
    IN IF w.val # word /\ w.val # "" THEN Raise(w.pos, "error.expect.keyword")
       ELSE Ok(w.pos, NoVal)

Keyword_parse(word, s, p) ==
    LET w == read_word(s, p)
    IN IF w.val # word THEN Raise(w.pos, "error.expect.keyword") ELSE Ok(w.pos, NoVal)

Enumerate_parse(options, s, p) ==
    LET w == read_word(s, p)
    IN IF w.val \notin options THEN Raise(w.pos, "error.expect.enum") ELSE Ok(w.pos, w.val)

\* for char in self.chars: if reader.next() != char: raise
RECURSIVE Chars_parse(_, _, _)
Chars_parse(chars, s, p) ==
    IF chars = <<>> THEN Ok(p, NoVal)
    ELSE IF peek(s, p) # Head(chars) THEN Raise(next(s, p), "error.expect.chars")
         ELSE Chars_parse(Tail(chars), s, next(s, p))

BareText_parse(empty_ok, s, p) ==
    LET r == read_until_eol(s, p)
    IN IF r.val = "" /\ ~empty_ok THEN Raise(r.pos, "error.expect.bare_text")
       ELSE Ok(r.pos, r.val)

Swizzle_parse(s, p) ==
    LET w == read_word(s, p)
        cs == SubSeq(s, p, w.pos - 1)
        wordset == {cs[i] : i \in 1 .. Len(cs)}
    IN IF Len(cs) > 0 /\ wordset \subseteq {"x", "y", "z"} /\ Cardinality(wordset) = Len(cs)
       THEN Ok(w.pos, w.val)
       ELSE Raise(w.pos, "error.expect.swizzle")

EOL_parse(s, p) ==
    IF is_line_end(peek(s, p)) THEN Ok(next(s, p), NoVal)
    ELSE Raise(p, "error.syntax.too_many_args")

\* The body loop of QuotedString._parse.  `p` is the reader position after
\* `char` was read, `pos0` the position before it; `chars` the decoded
\* characters and `fm` the escape marks appended so far.
RECURSIVE QuotedString_loop(_, _, _, _, _, _)
QuotedString_loop(s, char, pos0, p, chars, fm) ==
    IF char = DQ \/ is_line_end(char)
    THEN [char |-> char, pos |-> p, chars |-> chars, fm |-> fm]
    ELSE IF char = BSL
         THEN LET char2 == peek(s, p)
                  p2 == next(s, p)
                  f == char2 = BSL \/ char2 = DQ
                  chars2 == IF f THEN Append(chars, char2)
                            ELSE Append(Append(chars, char), char2)
                  fm2 == IF f THEN Append(fm, FontMark(pos0, p2, "meta")) ELSE fm
              IN QuotedString_loop(s, peek(s, p2), p2, next(s, p2), chars2, fm2)
         ELSE QuotedString_loop(s, peek(s, p), p, next(s, p), Append(chars, char), fm)

\* QuotedString._parse(marker).  marker.add_font_mark(font) pushes `font`
\* on the font stack, and on leaving the block normally pops it and appends
\* the mark; an exception raised in the block leaves the font pushed.
QuotedString_parse(n, s, p) ==
    LET p1 == next(s, p)
        open == FontMark(p, p1, "meta")
        l == QuotedString_loop(s, peek(s, p1), p1, next(s, p1), <<>>, <<open>>)
    IN IF peek(s, p) # DQ
       THEN [Raise(p1, "error.expect.quoted_str") EXCEPT !.push = <<"meta">>]
       ELSE IF l.char # DQ
            THEN [Raise(l.pos, "error.syntax.unclosed_str") EXCEPT !.fm = l.fm]
            ELSE [Ok(l.pos, Join(l.chars)) EXCEPT
                     !.fm = Append(l.fm, FontMark(l.pos - 1, l.pos, "meta")),
                     !.am = <<AutoCompletingMark(p, l.pos, n)>>]

\* ------------------------------------------------------------------------
\* The node graph.  A node is [kind, arg, font, chk, track, br]; a branch is
\* [to, ver, close, rae] (target, version filter, is_close,
\* require_arg_end).  Node ids are strings; the nodes of a CompressedNode
\* built at id p are p (its root), p.end (its `self.end`) and p.<part>.
\* The last parameter of a tree operator, `nxt`, holds the branches the
\* caller attaches to the node it builds.
\* ------------------------------------------------------------------------
NoFilter == [op |-> "any", v |-> <<0, 0, 0>>]

\* Python tuple comparison of two versions.
VersionLess(a, b) ==
    \/ a[1] < b[1]
    \/ a[1] = b[1] /\ a[2] < b[2]
    \/ a[1] = b[1] /\ a[2] = b[2] /\ a[3] < b[3]

version_le(vsn) == [op |-> "le", v |-> vsn]
version_ge(vsn) == [op |-> "ge", v |-> vsn]
version_lt(vsn) == [op |-> "lt", v |-> vsn]

\* version_ge compared with > in place of >=.
VersionFilter_strict_ge(f, v) ==
    CASE f.op = "le" -> ~VersionLess(f.v, v)
      [] f.op = "ge" -> VersionLess(f.v, v)
      [] f.op = "lt" -> VersionLess(v, f.v)
      [] OTHER -> TRUE

\* version_lt compared with <= in place of <.
VersionFilter_lt_inclusive(f, v) ==
    CASE f.op = "le" -> ~VersionLess(f.v, v)
      [] f.op = "ge" -> ~VersionLess(v, f.v)
      [] f.op = "lt" -> ~VersionLess(f.v, v)
      [] OTHER -> TRUE

\* The lambdas version_le / version_ge / version_lt return, applied to v.
VersionFilter(f, v) ==
    CASE f.op = "le" -> ~VersionLess(f.v, v)
      [] f.op = "ge" -> ~VersionLess(v, f.v)
      [] f.op = "lt" -> VersionLess(v, f.v)
      [] OTHER -> TRUE

NoChk == [op |-> "none", nolo |-> TRUE, lo |-> 0, nohi |-> TRUE, hi |-> 0, nums |-> {}]

\* Numeric.ranged(min, max) with both bounds, and with max = INF.
ranged(min, max) == [NoChk EXCEPT !.op = "ranged", !.nolo = FALSE, !.lo = min,
                                  !.nohi = FALSE, !.hi = max]
ranged_min(min) == [NoChk EXCEPT !.op = "ranged", !.nolo = FALSE, !.lo = min]
none_of(numbers) == [NoChk EXCEPT !.op = "none_of", !.nums = numbers]
one_of(numbers) == [NoChk EXCEPT !.op = "one_of", !.nums = numbers]

Br(to) == [to |-> to, ver |-> NoFilter, close |-> FALSE, rae |-> FALSE]
BrV(to, ver) == [to |-> to, ver |-> ver, close |-> FALSE, rae |-> FALSE]
BrClose(to) == [to |-> to, ver |-> NoFilter, close |-> TRUE, rae |-> FALSE]
BrArgEnd(to) == [to |-> to, ver |-> NoFilter, close |-> FALSE, rae |-> TRUE]

NoTrack == [owner |-> "", cb |-> ""]

Node(kind, arg, font, br) ==
    [kind |-> kind, arg |-> arg, font |-> font, chk |-> NoChk, track |-> NoTrack, br |-> br]

Empty(p, br) == p :> Node("Empty", "", "", br)

\* node.finish(EOL): a branch to a new EOL node.
EOLAt(p) == p :> Node("EOL", "", "default", <<>>)

Keyword(p, word, font, br) == p :> Node("Keyword", word, font, br)
Enumerate(p, options, font, br) == p :> Node("Enumerate", options, font, br)
Char(p, char, font, br) == p :> Node("Char", char, font, br)
Chars(p, chars, br) == p :> Node("Chars", chars, "meta", br)
Integer(p, font, chk, br) == p :> [Node("Integer", "", font, br) EXCEPT !.chk = chk]
IntegerNoEnd(p, br) == p :> Node("IntegerNoEnd", "", "numeric", br)
Float(p, font, chk, br) == p :> [Node("Float", "", font, br) EXCEPT !.chk = chk]
OffsetFloat(p, font, br) == p :> Node("OffsetFloat", "", font, br)
Word(p, font, br) == p :> Node("Word", "", font, br)
Boolean(p, br) == p :> Node("Boolean", "", "numeric", br)
NamespacedId(p, id_type, br) == p :> Node("NamespacedId", id_type, "string", br)
QuotedString(p, font, br) == p :> Node("QuotedString", "", font, br)
Swizzle(p, br) == p :> Node("Swizzle", "", "keyword", br)

\* class IdStructure(Word): a Word whose suggestions are the ids of the id
\* table.
IdStructure(p, br) == p :> Node("Word", "structure", "string", br)

\* ItemData(is_test)
ItemData(p, is_test, br) ==
    Integer(p, "numeric", ranged(IF is_test THEN 0 - 1 ELSE 0, 32767), br)

\* class String(CompressedNode)
String_tree(p, font, nxt) ==
    Empty(p, <<Br(p \o ".word"), Br(p \o ".qstr")>>)
    @@ Word(p \o ".word", font, <<Br(p \o ".end")>>)
    @@ QuotedString(p \o ".qstr", font, <<Br(p \o ".end")>>)
    @@ Empty(p \o ".end", nxt)

\* class Invertable(CompressedNode); Inner builds self.node at p.node.
Invertable_tree(p, Inner(_, _), nxt) ==
    Empty(p, <<Br(p \o ".node"), Br(p \o ".not")>>)
    @@ Inner(p \o ".node", <<Br(p \o ".end")>>)
    @@ Char(p \o ".not", "!", "meta", <<Br(p \o ".node")>>)
    @@ Empty(p \o ".end", nxt)

\* class _RawIntRange(CompressedNode)
RawIntRange_tree(p, nxt) ==
    Empty(p, <<Br(p \o ".int"), Br(p \o ".dots2")>>)
    @@ IntegerNoEnd(p \o ".int", <<Br(p \o ".dots"), BrArgEnd(p \o ".end")>>)
    @@ Chars(p \o ".dots", <<".", ".">>, <<Br(p \o ".end"), Br(p \o ".max")>>)
    @@ Integer(p \o ".max", "numeric", NoChk, <<Br(p \o ".end")>>)
    @@ Chars(p \o ".dots2", <<".", ".">>, <<Br(p \o ".max2")>>)
    @@ Integer(p \o ".max2", "numeric", NoChk, <<Br(p \o ".end")>>)
    @@ Empty(p \o ".end", nxt)

\* def IntRange()
IntRange(p, nxt) == Invertable_tree(p, RawIntRange_tree, nxt)

\* class Pos(CompressedNode) and class Rotation(CompressedNode): the same
\* tree under the fonts position and rotation.
Pos_tree(p, font, nxt) ==
    Empty(p, <<Br(p \o ".abs"), Br(p \o ".rel")>>)
    @@ Float(p \o ".abs", font, NoChk, <<Br(p \o ".end")>>)
    @@ Char(p \o ".rel", "~", font, <<BrClose(p \o ".off"), BrArgEnd(p \o ".end")>>)
    @@ OffsetFloat(p \o ".off", font, <<Br(p \o ".end")>>)
    @@ Empty(p \o ".end", nxt)

\* class LocalPos(CompressedNode)
LocalPos_tree(p, nxt) ==
    Empty(p, <<Br(p \o ".loc")>>)
    @@ Char(p \o ".loc", "^", "position", <<BrClose(p \o ".off"), BrArgEnd(p \o ".end")>>)
    @@ OffsetFloat(p \o ".off", "position", <<Br(p \o ".end")>>)
    @@ Empty(p \o ".end", nxt)

\* class Pos3D(CompressedNode): for cls in (Pos, LocalPos): x -> y -> z.
Pos3D_tree(p, nxt) ==
    Empty(p, <<Br(p \o ".x"), Br(p \o ".lx")>>)
    @@ Pos_tree(p \o ".x", "position", <<Br(p \o ".y")>>)
    @@ Pos_tree(p \o ".y", "position", <<Br(p \o ".z")>>)
    @@ Pos_tree(p \o ".z", "position", <<Br(p \o ".end")>>)
    @@ LocalPos_tree(p \o ".lx", <<Br(p \o ".ly")>>)
    @@ LocalPos_tree(p \o ".ly", <<Br(p \o ".lz")>>)
    @@ LocalPos_tree(p \o ".lz", <<Br(p \o ".end")>>)
    @@ Empty(p \o ".end", nxt)

\* class YawPitch(CompressedNode)
YawPitch_tree(p, nxt) ==
    Empty(p, <<Br(p \o ".x")>>)
    @@ Pos_tree(p \o ".x", "rotation", <<Br(p \o ".y")>>)
    @@ Pos_tree(p \o ".y", "rotation", <<Br(p \o ".end")>>)
    @@ Empty(p \o ".end", nxt)

\* class GameMode(CompressedNode)
GameMode_tree(p, allow_5, nxt) ==
    Empty(p, <<Br(p \o ".name"), Br(p \o ".id")>>)
    @@ Enumerate(p \o ".name", {"spectator", "adventure", "survival", "creative",
                               "default", "s", "c", "a", "d"}, "keyword",
                 <<Br(p \o ".end")>>)
    @@ Integer(p \o ".id", "keyword",
               one_of(IF allow_5 THEN {0, 1, 2, 5} ELSE {0, 1, 2}), <<Br(p \o ".end")>>)
    @@ Empty(p \o ".end", nxt)

\* class Series(CompressedNode); Content builds self.content at p.content.
Series_tree(p, begin, end, seperator, Content(_, _), empty_ok, nxt) ==
    Empty(p, <<Br(p \o ".begin")>>)
    @@ Char(p \o ".begin", begin, "default",
            <<Br(p \o ".content")>> \o (IF empty_ok THEN <<Br(p \o ".end_")>> ELSE <<>>))
    @@ Content(p \o ".content", <<Br(p \o ".sep"), Br(p \o ".end_")>>)
    @@ Char(p \o ".sep", seperator, "default", <<Br(p \o ".content")>>)
    @@ Char(p \o ".end_", end, "default", <<Br(p \o ".end")>>)
    @@ Empty(p \o ".end", nxt)

\* class Wildcard(CompressedNode); Inner builds self.node at p.node.
Wildcard_tree(p, Inner(_, _), nxt) ==
    Empty(p, <<Br(p \o ".node"), Br(p \o ".star")>>)
    @@ Inner(p \o ".node", <<Br(p \o ".end")>>)
    @@ Char(p \o ".star", "*", "meta", <<Br(p \o ".end")>>)
    @@ Empty(p \o ".end", nxt)

\* class CharsEnumerate(CompressedNode), for the strings of the score test.
CharsEnumerate_tree(p, nxt) ==
    Empty(p, <<Br(p \o ".eq"), Br(p \o ".le"), Br(p \o ".ge"), Br(p \o ".lt"), Br(p \o ".gt")>>)
    @@ Chars(p \o ".eq", <<"=">>, <<Br(p \o ".end")>>)
    @@ Chars(p \o ".le", <<"<", "=">>, <<Br(p \o ".end")>>)
    @@ Chars(p \o ".ge", <<">", "=">>, <<Br(p \o ".end")>>)
    @@ Chars(p \o ".lt", <<"<">>, <<Br(p \o ".end")>>)
    @@ Chars(p \o ".gt", <<">">>, <<Br(p \o ".end")>>)
    @@ Empty(p \o ".end", nxt)


\* ResultTracked(node, callback): the node at p calls `cb` of `owner` with
\* the value it parsed.
ResultTracked(frag, p, owner, cb) ==
    [frag EXCEPT ![p].track = [owner |-> owner, cb |-> cb]]

KeywordCaseInsensitive(p, word, br) == p :> Node("KeywordCaseInsensitive", word, "keyword", br)

\* SelectorArg._HasItem._HasItemArg
HasItemArg_tree(p, nxt) ==
    LET arg(name, Value(_, _)) ==
            Keyword(p \o "." \o name, name, "keyword", <<Br(p \o "." \o name \o ".eq")>>)
            @@ Char(p \o "." \o name \o ".eq", "=", "default", <<Br(p \o "." \o name \o ".val")>>)
            @@ Value(p \o "." \o name \o ".val", <<Br(p \o ".end")>>)
    IN Empty(p, <<Br(p \o ".item"), Br(p \o ".data"), Br(p \o ".quantity"),
                  Br(p \o ".location"), Br(p \o ".slot")>>)
       @@ arg("item", LAMBDA q, nx : NamespacedId(q, "item", nx))
       @@ arg("data", LAMBDA q, nx : ItemData(q, TRUE, nx))
       @@ arg("quantity", IntRange)
       @@ arg("location", LAMBDA q, nx : Word(q, "string", nx))
       @@ arg("slot", IntRange)
       @@ Empty(p \o ".end", nxt)

\* SelectorArg._HasItem._hasitem_object
hasitem_object(p, nxt) == Series_tree(p, "{", "}", ",", HasItemArg_tree, FALSE, nxt)

\* SelectorArg._HasItem
HasItem_tree(p, nxt) ==
    Empty(p, <<Br(p \o ".obj"), Br(p \o ".arr")>>)
    @@ hasitem_object(p \o ".obj", <<Br(p \o ".end")>>)
    @@ Series_tree(p \o ".arr", "[", "]", ",", hasitem_object, FALSE, <<Br(p \o ".end")>>)
    @@ Empty(p \o ".end", nxt)

\* SelectorArg._RawTag
RawTag_tree(p, nxt) ==
    Empty(p, <<Br(p \o ".str"), Br(p \o ".end")>>)
    @@ String_tree(p \o ".str", "tag", <<Br(p \o ".end")>>)
    @@ Empty(p \o ".end", nxt)

\* SelectorArg._ScoresArg
ScoresArg_tree(p, nxt) ==
    Empty(p, <<Br(p \o ".name")>>)
    @@ String_tree(p \o ".name", "scoreboard", <<Br(p \o ".eq")>>)
    @@ Char(p \o ".eq", "=", "default", <<Br(p \o ".range")>>)
    @@ IntRange(p \o ".range", <<Br(p \o ".end")>>)
    @@ Empty(p \o ".end", nxt)

\* SelectorArg._HasPermissionArg
HasPermissionArg_tree(p, nxt) ==
    Empty(p, <<Br(p \o ".perm")>>)
    @@ Word(p \o ".perm", "string", <<Br(p \o ".eq")>>)
    @@ Char(p \o ".eq", "=", "default", <<Br(p \o ".state")>>)
    @@ Enumerate(p \o ".state", {"enabled", "disabled"}, "numeric", <<Br(p \o ".end")>>)
    @@ Empty(p \o ".end", nxt)

\* class SelectorArg(CompressedNode): _handle(arg, node, kwds) for each
\* argument, in the order of the source.
SelectorArg_tree(p, nxt) ==
    LET a(name) == p \o "." \o name
        handle(name, Value(_, _)) ==
            KeywordCaseInsensitive(a(name), name, <<Br(a(name) \o ".eq")>>)
            @@ Char(a(name) \o ".eq", "=", "default", <<Br(a(name) \o ".val")>>)
            @@ Value(a(name) \o ".val", <<Br(p \o ".end")>>)
        flt0(q, nx) == Float(q, "numeric", ranged_min(0), nx)
        flt(q, nx) == Float(q, "numeric", NoChk, nx)
        xrot(q, nx) == Float(q, "rotation", ranged(0 - 90, 90), nx)
        yrot(q, nx) == Float(q, "rotation", ranged(0 - 180, 180), nx)
        posn(q, nx) == Pos_tree(q, "position", nx)
        int0(q, nx) == Integer(q, "numeric", ranged_min(0), nx)
        intc(q, nx) == Integer(q, "numeric", none_of({0}), nx)
    IN Empty(p, <<Br(a("r")), Br(a("rm")), Br(a("dx")), Br(a("dy")), Br(a("dz")),
                  Br(a("x")), Br(a("y")), Br(a("z")), Br(a("scores")), Br(a("tag")),
                  Br(a("name")), Br(a("type")), Br(a("family")), Br(a("rx")),
                  Br(a("rxm")), Br(a("ry")), Br(a("rym")), Br(a("hasitem")),
                  Br(a("l")), Br(a("lm")), Br(a("m")), Br(a("c")),
                  BrV(a("haspermission"), version_ge(<<1, 19, 80>>))>>)
       @@ handle("r", flt0)
       @@ handle("rm", flt0)
       @@ handle("dx", flt)
       @@ handle("dy", flt)
       @@ handle("dz", flt)
       @@ handle("x", posn)
       @@ handle("y", posn)
       @@ handle("z", posn)
       @@ handle("scores", LAMBDA q, nx :
                 Series_tree(q, "{", "}", ",", ScoresArg_tree, FALSE, nx))
       @@ handle("tag", LAMBDA q, nx : Invertable_tree(q, RawTag_tree, nx))
       @@ handle("name", LAMBDA q, nx : Invertable_tree(q,
                 LAMBDA q2, nx2 : String_tree(q2, "string", nx2), nx))
       @@ handle("type", LAMBDA q, nx : Invertable_tree(q,
                 LAMBDA q2, nx2 : NamespacedId(q2, "entity", nx2), nx))
       @@ handle("family", LAMBDA q, nx : Invertable_tree(q,
                 LAMBDA q2, nx2 : String_tree(q2, "string", nx2), nx))
       @@ handle("rx", xrot)
       @@ handle("rxm", xrot)
       @@ handle("ry", yrot)
       @@ handle("rym", yrot)
       @@ handle("hasitem", HasItem_tree)
       @@ handle("l", int0)
       @@ handle("lm", int0)
       @@ handle("m", LAMBDA q, nx : GameMode_tree(q, FALSE, nx))
       @@ handle("c", intc)
       @@ handle("haspermission", LAMBDA q, nx :
                 Series_tree(q, "{", "}", ",", HasPermissionArg_tree, FALSE, nx))
       @@ Empty(p \o ".end", nxt)

\* class Selector(CompressedNode)
Selector_tree(p, nxt) ==
    Empty(p, <<Br(p \o ".name"), Br(p \o ".at")>>)
    @@ String_tree(p \o ".name", "target", <<Br(p \o ".end")>>)
    @@ Char(p \o ".at", "@", "target", <<BrClose(p \o ".var")>>)
    @@ Enumerate(p \o ".var", {"a", "e", "r", "p", "s", "initiator"}, "target",
                 <<Br(p \o ".args"), Br(p \o ".end")>>)
    @@ Series_tree(p \o ".args", "[", "]", ",", SelectorArg_tree, FALSE, <<Br(p \o ".end")>>)
    @@ Empty(p \o ".end", nxt)

\* class ScoreSpec(CompressedNode)
ScoreSpec_tree(p, wildcard_ok, nxt) ==
    Empty(p, <<Br(p \o ".sel")>>)
    @@ (IF wildcard_ok
        THEN Wildcard_tree(p \o ".sel", Selector_tree, <<Br(p \o ".obj")>>)
        ELSE Selector_tree(p \o ".sel", <<Br(p \o ".obj")>>))
    @@ String_tree(p \o ".obj", "scoreboard", <<Br(p \o ".end")>>)
    @@ Empty(p \o ".end", nxt)

\* BlockSpec._BlockStatePair; `owner` is the BlockSpec it belongs to.
BlockStatePair_tree(p, nxt) ==
    Empty(p, <<Br(p \o ".key")>>)
    @@ ResultTracked(QuotedString(p \o ".key", "string", <<Br(p \o ".colon")>>),
                     p \o ".key", p, "set_key")
    @@ Char(p \o ".colon", ":", "default",
            <<Br(p \o ".str"), Br(p \o ".int"), Br(p \o ".bool")>>)
    @@ QuotedString(p \o ".str", "string", <<Br(p \o ".end")>>)
    @@ Integer(p \o ".int", "numeric", NoChk, <<Br(p \o ".end")>>)
    @@ Boolean(p \o ".bool", <<Br(p \o ".end")>>)
    @@ Empty(p \o ".end", nxt)

\* class BlockSpec, where the data value has no version filter.
BlockSpec_tree_data_always(p, bs_optional, nxt) ==
    Empty(p, <<Br(p \o ".id")>>)
    @@ ResultTracked(
         NamespacedId(p \o ".id", "block",
            <<Br(p \o ".data"),
              Br(p \o ".states"),
              BrV(p \o ".end", version_ge(<<1, 19, 80>>))>>
            \o (IF bs_optional = <<>> THEN <<>>
                ELSE <<BrV(bs_optional[1], version_lt(<<1, 19, 80>>))>>)),
         p \o ".id", p, "set_block_id")
    @@ Integer(p \o ".data", "numeric", NoChk, <<Br(p \o ".end")>>)
    @@ Series_tree(p \o ".states", "[", "]", ",", BlockStatePair_tree, TRUE,
                   <<Br(p \o ".end")>>)
    @@ Empty(p \o ".end", nxt)

\* class BlockSpec(CompressedNode); bs_optional is a sequence of at most one
\* node id (the node that may follow a bare block id before 1.19.80).
BlockSpec_tree(p, bs_optional, nxt) ==
    Empty(p, <<Br(p \o ".id")>>)
    @@ ResultTracked(
         NamespacedId(p \o ".id", "block",
            <<BrV(p \o ".data", version_le(<<1, 19, 70>>)),
              Br(p \o ".states"),
              BrV(p \o ".end", version_ge(<<1, 19, 80>>))>>
            \o (IF bs_optional = <<>> THEN <<>>
                ELSE <<BrV(bs_optional[1], version_lt(<<1, 19, 80>>))>>)),
         p \o ".id", p, "set_block_id")
    @@ Integer(p \o ".data", "numeric", NoChk, <<Br(p \o ".end")>>)
    @@ Series_tree(p \o ".states", "[", "]", ",", BlockStatePair_tree, TRUE,
                   <<Br(p \o ".end")>>)
    @@ Empty(p \o ".end", nxt)


\* class Json(SubparsingNode); `name` is the name of the definition entry.
Json(p, name, br) == p :> Node("Json", name, "default", br)

\* A branch to the EOL node of p, and that node.
Fin(p) == Br(p \o ".eol")

\* command(): _execute, where the selector of `as` may end the line.
execute_tree_as_finishes ==
    LET e == "_execute"
        sub(word, br) == Keyword(e \o "." \o word, word, "keyword", br)
        anchors == {"eyes", "feet"}
    IN Empty(e, <<Br(e \o ".align"), Br(e \o ".anchored"), Br(e \o ".as"), Br(e \o ".at"),
                  Br(e \o ".facing"), Br(e \o ".in"), Br(e \o ".positioned"),
                  Br(e \o ".rotated"), Br(e \o ".if"), Br(e \o ".unless"), Br(e \o ".run")>>)
       @@ sub("align", <<Br(e \o ".align.axes")>>)
       @@ Swizzle(e \o ".align.axes", <<Br(e)>>)
       @@ sub("anchored", <<Br(e \o ".anchored.anchor")>>)
       @@ Enumerate(e \o ".anchored.anchor", anchors, "keyword", <<Br(e)>>)
       @@ sub("as", <<Br(e \o ".as.sel")>>)
       @@ Selector_tree(e \o ".as.sel", <<Br(e), Fin("_execute_cond")>>)
       @@ sub("at", <<Br(e \o ".at.sel")>>)
       @@ Selector_tree(e \o ".at.sel", <<Br(e)>>)
       @@ sub("facing", <<Br(e \o ".facing.pos"), Br(e \o ".facing.entity")>>)
       @@ Pos3D_tree(e \o ".facing.pos", <<Br(e)>>)
       @@ Keyword(e \o ".facing.entity", "entity", "keyword", <<Br(e \o ".facing.sel")>>)
       @@ Selector_tree(e \o ".facing.sel", <<Br(e \o ".facing.anchor")>>)
       @@ Enumerate(e \o ".facing.anchor", anchors, "keyword", <<Br(e)>>)
       @@ sub("in", <<Br(e \o ".in.dim")>>)
       @@ Enumerate(e \o ".in.dim", {"overworld", "nether", "the_end"}, "keyword", <<Br(e)>>)
       @@ sub("positioned", <<Br(e \o ".positioned.pos"), Br(e \o ".positioned.as")>>)
       @@ Pos3D_tree(e \o ".positioned.pos", <<Br(e)>>)
       @@ Keyword(e \o ".positioned.as", "as", "keyword", <<Br(e \o ".positioned.sel")>>)
       @@ Selector_tree(e \o ".positioned.sel", <<Br(e)>>)
       @@ sub("rotated", <<Br(e \o ".rotated.rot"), Br(e \o ".rotated.as")>>)
       @@ YawPitch_tree(e \o ".rotated.rot", <<Br(e)>>)
       @@ Keyword(e \o ".rotated.as", "as", "keyword", <<Br(e \o ".rotated.sel")>>)
       @@ Selector_tree(e \o ".rotated.sel", <<Br(e)>>)
       @@ sub("if", <<Br("_execute_cond")>>)
       @@ sub("unless", <<Br("_execute_cond")>>)
       @@ sub("run", <<Br("command_root")>>)

\* command(): _execute_cond
execute_cond_tree ==
    LET c == "_execute_cond"
        tail == <<Br("_execute"), Fin(c)>>
    IN Empty(c, <<Br(c \o ".block"), Br(c \o ".blocks"), Br(c \o ".entity"), Br(c \o ".score")>>)
       @@ EOLAt(c \o ".eol")
       \* if block <pos> <block>
       @@ Keyword(c \o ".block", "block", "keyword", <<Br(c \o ".block.pos")>>)
       @@ Pos3D_tree(c \o ".block.pos", <<Br(c \o ".block.spec")>>)
       @@ BlockSpec_tree(c \o ".block.spec", <<"_execute">>, <<Br("_execute"), Fin(c \o ".block")>>)
       @@ EOLAt(c \o ".block.eol")
       \* if blocks <pos> <pos> <pos> all|masked
       @@ Keyword(c \o ".blocks", "blocks", "keyword", <<Br(c \o ".blocks.p1")>>)
       @@ Pos3D_tree(c \o ".blocks.p1", <<Br(c \o ".blocks.p2")>>)
       @@ Pos3D_tree(c \o ".blocks.p2", <<Br(c \o ".blocks.p3")>>)
       @@ Pos3D_tree(c \o ".blocks.p3", <<Br(c \o ".blocks.mode")>>)
       @@ Enumerate(c \o ".blocks.mode", {"all", "masked"}, "keyword",
                    <<Br("_execute"), Fin(c \o ".blocks")>>)
       @@ EOLAt(c \o ".blocks.eol")
       \* if entity <selector>
       @@ Keyword(c \o ".entity", "entity", "keyword", <<Br(c \o ".entity.sel")>>)
       @@ Selector_tree(c \o ".entity.sel", <<Br("_execute"), Fin(c \o ".entity")>>)
       @@ EOLAt(c \o ".entity.eol")
       \* if score <score> matches <range> | <op> <score>
       @@ Keyword(c \o ".score", "score", "keyword", <<Br(c \o ".score.a")>>)
       @@ ScoreSpec_tree(c \o ".score.a", FALSE, <<Br(c \o ".score.matches"), Br(c \o ".score.op")>>)
       @@ Keyword(c \o ".score.matches", "matches", "keyword", <<Br(c \o ".score.range")>>)
       @@ IntRange(c \o ".score.range", <<Br("_execute"), Fin(c \o ".score.range")>>)
       @@ EOLAt(c \o ".score.range.eol")
       @@ CharsEnumerate_tree(c \o ".score.op", <<Br(c \o ".score.b")>>)
       @@ ScoreSpec_tree(c \o ".score.b", FALSE, <<Br("_execute"), Fin(c \o ".score.b")>>)
       @@ EOLAt(c \o ".score.b.eol")

\* command(): _execute
execute_tree ==
    LET e == "_execute"
        sub(word, br) == Keyword(e \o "." \o word, word, "keyword", br)
        anchors == {"eyes", "feet"}
    IN Empty(e, <<Br(e \o ".align"), Br(e \o ".anchored"), Br(e \o ".as"), Br(e \o ".at"),
                  Br(e \o ".facing"), Br(e \o ".in"), Br(e \o ".positioned"),
                  Br(e \o ".rotated"), Br(e \o ".if"), Br(e \o ".unless"), Br(e \o ".run")>>)
       @@ sub("align", <<Br(e \o ".align.axes")>>)
       @@ Swizzle(e \o ".align.axes", <<Br(e)>>)
       @@ sub("anchored", <<Br(e \o ".anchored.anchor")>>)
       @@ Enumerate(e \o ".anchored.anchor", anchors, "keyword", <<Br(e)>>)
       @@ sub("as", <<Br(e \o ".as.sel")>>)
       @@ Selector_tree(e \o ".as.sel", <<Br(e)>>)
       @@ sub("at", <<Br(e \o ".at.sel")>>)
       @@ Selector_tree(e \o ".at.sel", <<Br(e)>>)
       @@ sub("facing", <<Br(e \o ".facing.pos"), Br(e \o ".facing.entity")>>)
       @@ Pos3D_tree(e \o ".facing.pos", <<Br(e)>>)
       @@ Keyword(e \o ".facing.entity", "entity", "keyword", <<Br(e \o ".facing.sel")>>)
       @@ Selector_tree(e \o ".facing.sel", <<Br(e \o ".facing.anchor")>>)
       @@ Enumerate(e \o ".facing.anchor", anchors, "keyword", <<Br(e)>>)
       @@ sub("in", <<Br(e \o ".in.dim")>>)
       @@ Enumerate(e \o ".in.dim", {"overworld", "nether", "the_end"}, "keyword", <<Br(e)>>)
       @@ sub("positioned", <<Br(e \o ".positioned.pos"), Br(e \o ".positioned.as")>>)
       @@ Pos3D_tree(e \o ".positioned.pos", <<Br(e)>>)
       @@ Keyword(e \o ".positioned.as", "as", "keyword", <<Br(e \o ".positioned.sel")>>)
       @@ Selector_tree(e \o ".positioned.sel", <<Br(e)>>)
       @@ sub("rotated", <<Br(e \o ".rotated.rot"), Br(e \o ".rotated.as")>>)
       @@ YawPitch_tree(e \o ".rotated.rot", <<Br(e)>>)
       @@ Keyword(e \o ".rotated.as", "as", "keyword", <<Br(e \o ".rotated.sel")>>)
       @@ Selector_tree(e \o ".rotated.sel", <<Br(e)>>)
       @@ sub("if", <<Br("_execute_cond")>>)
       @@ sub("unless", <<Br("_execute_cond")>>)
       @@ sub("run", <<Br("command_root")>>)

\* command(): the root alternation, for the commands help, ability,
\* execute, give, locate and tellraw.
command ==
    LET r == "command_root"
        CommandName(p, names, br) ==
            IF Cardinality(names) = 1
            THEN Keyword(p, CHOOSE w \in names : TRUE, "command", br)
            ELSE Enumerate(p, names, "command", br)
    IN Empty(r, <<Br("help"), Br("ability"), Br("execute"), Br("give"), Br("locate"),
                  Br("tellraw")>>)
       \* help
       @@ CommandName("help", {"help", "?"}, <<Br("help.page"), Br("help.command"), Fin("help")>>)
       @@ Integer("help.page", "numeric", NoChk, <<Fin("help.page")>>)
       @@ EOLAt("help.page.eol")
       @@ Word("help.command", "string", <<Fin("help.command")>>)
       @@ EOLAt("help.command.eol")
       @@ EOLAt("help.eol")
       \* ability
       @@ CommandName("ability", {"ability"}, <<Br("ability.sel")>>)
       @@ Selector_tree("ability.sel", <<Br("ability.name"), Fin("ability.sel")>>)
       @@ Enumerate("ability.name", {"mayfly", "worldbuilder", "mute"}, "keyword",
                    <<Br("ability.set"), Fin("ability.name")>>)
       @@ Boolean("ability.set", <<Fin("ability.set")>>)
       @@ EOLAt("ability.set.eol")
       @@ EOLAt("ability.name.eol")
       @@ EOLAt("ability.sel.eol")
       \* execute
       @@ CommandName("execute", {"execute"},
                      <<BrV("_execute", version_ge(<<1, 19, 50>>)),
                        BrV("execute.sel", version_lt(<<1, 19, 50>>))>>)
       @@ execute_tree
       @@ execute_cond_tree
       @@ Selector_tree("execute.sel", <<Br("execute.pos")>>)
       @@ Pos3D_tree("execute.pos", <<Br(r), Br("execute.detect")>>)
       @@ Keyword("execute.detect", "detect", "keyword", <<Br("execute.detect.pos")>>)
       @@ Pos3D_tree("execute.detect.pos", <<Br("execute.detect.block")>>)
       @@ NamespacedId("execute.detect.block", "block", <<Br("execute.detect.data")>>)
       @@ Integer("execute.detect.data", "numeric", NoChk, <<Br(r)>>)
       \* give
       @@ CommandName("give", {"give"}, <<Br("give.sel")>>)
       @@ Selector_tree("give.sel", <<Br("give.item")>>)
       @@ NamespacedId("give.item", "item", <<Br("give.amount"), Fin("give.item")>>)
       @@ Integer("give.amount", "numeric", ranged(1, 32767),
                  <<Br("give.data"), Fin("give.amount")>>)
       @@ ItemData("give.data", FALSE, <<Br("give.components"), Fin("give.data")>>)
       @@ Json("give.components", "$item_components", <<Fin("give.components")>>)
       @@ EOLAt("give.components.eol")
       @@ EOLAt("give.data.eol")
       @@ EOLAt("give.amount.eol")
       @@ EOLAt("give.item.eol")
       \* locate
       @@ CommandName("locate", {"locate"},
                      <<BrV("locate.biome", version_ge(<<1, 19, 10>>)),
                        BrV("locate.structure", version_ge(<<1, 19, 10>>)),
                        BrV("locate.old", version_lt(<<1, 19, 30>>))>>)
       @@ Keyword("locate.biome", "biome", "keyword", <<Br("locate.biome.id")>>)
       @@ NamespacedId("locate.biome.id", "biome", <<Fin("locate.biome.id")>>)
       @@ EOLAt("locate.biome.id.eol")
       @@ Keyword("locate.structure", "structure", "keyword", <<Br("locate.structure.id")>>)
       @@ IdStructure("locate.structure.id",
                      <<Br("locate.structure.new"), Fin("locate.structure.id")>>)
       @@ Boolean("locate.structure.new", <<Fin("locate.structure.new")>>)
       @@ EOLAt("locate.structure.new.eol")
       @@ EOLAt("locate.structure.id.eol")
       @@ IdStructure("locate.old", <<Br("locate.old.new"), Fin("locate.old")>>)
       @@ Boolean("locate.old.new", <<Fin("locate.old.new")>>)
       @@ EOLAt("locate.old.new.eol")
       @@ EOLAt("locate.old.eol")
       \* tellraw
       @@ CommandName("tellraw", {"tellraw"}, <<Br("tellraw.sel")>>)
       @@ Selector_tree("tellraw.sel", <<Br("tellraw.text")>>)
       @@ Json("tellraw.text", "$rawtext", <<Fin("tellraw.text")>>)
       @@ EOLAt("tellraw.text.eol")

\* The frozen graph.
Arena == command

NodeIds == DOMAIN Arena

\* The objects whose attributes a ResultTracked callback or a parse rule
\* writes: the BlockSpec and _BlockStatePair instances and the Json nodes of
\* the graph g.
Owners(g) == ({g[n].track.owner : n \in DOMAIN g} \ {""})
             \cup {n \in DOMAIN g : g[n].kind = "Json"}


\* ------------------------------------------------------------------------
\* State
\* ------------------------------------------------------------------------
VARIABLES
    src,          \* the source text of the parser
    version,      \* Marker.version
    pos,          \* Marker.reader: the position of the next character
    font_marks,   \* Marker.font_marks
    ac_marks,     \* Marker.ac_marks
    font_stack,   \* Marker.font_stack
    checkers,     \* Marker.deferred_checkers
    stack,        \* the engine's recursion: one frame per node whose branches are being tried
    pc,           \* where parse_line is
    cur,          \* the node being entered
    err,          \* the failure being propagated
    diags,        \* the diagnostics of the line
    outcome,      \* "none", "accept" or "reject"
    fields,       \* attributes and closure variables the nodes' callbacks write
    failures,     \* every failure raised while parsing the line, in order
    sugg,         \* the last answer of suggestions_at
    walk,         \* the traversal of the grammar graph
    conc,         \* two threads parsing over the shared grammar
    jstr,         \* a _JsonString node parsing a string of the outer source
    dyn,          \* a _DynamicIdSuggestion being resolved against an id table
    idt,          \* id tables being merged, dumped and loaded
    prev,         \* the outcome of the same line at another version
    unit          \* one part of the program applied to one input

marker_vars == <<pos, font_marks, ac_marks, font_stack, checkers>>
engine_vars == <<src, version, pos, font_marks, ac_marks, font_stack, checkers,
                 stack, pc, cur, err, diags, outcome, fields, failures, sugg>>

lab_vars == <<jstr, dyn, idt, prev, unit>>

vars == <<engine_vars, walk, conc, lab_vars>>

\* ------------------------------------------------------------------------
\* Class attributes of the node classes
\* ------------------------------------------------------------------------
\* The class attributes without the override of IntegerNoEnd.
argument_end_inherited(kind) ==
    kind \notin {"Char", "QuotedString", "Chars", "_JsonString", "EOL", "Empty"}

\* `argument_end = False` of Char, QuotedString, Chars, IntegerNoEnd,
\* _JsonString and EOL; Empty parses nothing and ends no argument.
argument_end(kind) ==
    kind \notin {"Char", "QuotedString", "Chars", "IntegerNoEnd", "_JsonString", "EOL", "Empty"}

\* The SubparsingNode classes: they add their marks themselves.
SubparsingNode(kind) == kind \in {"QuotedString", "_JsonString", "Json", "_RawtextTranslate"}

\* The Finish classes.
Finish(kind) == kind = "EOL"

\* Json.WHITESPACES
WHITESPACES == {" ", TAB, CR, NL}

\* Json.__skip_spaces
skip_spaces(s, p) == RunEnd(s, p, WHITESPACES)

\* tree2.parse(submarker) of _JsonString._parse, defined with the parse
\* engine below.
RECURSIVE subparse(_, _, _)

\* Location.column of position p of source s, less one: the characters
\* between p and the last "\n" before it.
RECURSIVE column0(_, _)
column0(s, p) ==
    IF p <= 1 THEN 0
    ELSE IF s[p - 1] = NL THEN 0 ELSE column0(s, p - 1) + 1

\* _JsonString.ESCAPES
ESCAPES == ("t" :> TAB) @@ ("n" :> NL) @@ ("b" :> "<BS>") @@ ("f" :> "<FF>")
           @@ ("r" :> CR) @@ (DQ :> DQ) @@ (BSL :> BSL)

\* _JsonString.HEX
HEX == DIGITS \cup {"a", "b", "c", "d", "e", "f", "A", "B", "C", "D", "E", "F"}

\* int(c, base=16) of one character of HEX.
HexVal(c) ==
    CASE c \in DIGITS -> DigitVal[c]
      [] c \in {"a", "A"} -> 10 [] c \in {"b", "B"} -> 11 [] c \in {"c", "C"} -> 12
      [] c \in {"d", "D"} -> 13 [] c \in {"e", "E"} -> 14 [] c \in {"f", "F"} -> 15

\* chr(n), for the code points of the characters of the model.
chr(n) ==
    CASE n = 9 -> TAB [] n = 10 -> NL [] n = 13 -> CR [] n = 32 -> " "
      [] n = 34 -> DQ [] n = 42 -> "*" [] n = 92 -> BSL [] n = 97 -> "a"
      [] OTHER -> "<chr>"

\* The body loop of _JsonString._parse: p is the reader position, chars
\* the decoded characters, col_map the decoded index of each source
\* character read, i the decoded index.
RECURSIVE JsonString_loop(_, _, _, _, _)
JsonString_loop(s, p, chars, col_map, i) ==
    LET char == peek(s, p)
        q == next(s, p)
    IN IF char = DQ \/ is_line_end(char)
       THEN [char |-> char, pos |-> q, chars |-> chars, col_map |-> Append(col_map, i),
             err |-> ""]
       ELSE IF char = BSL
       THEN LET char2 == peek(s, q)
                q2 == next(s, q)
            IN IF char2 \in DOMAIN ESCAPES
               THEN JsonString_loop(s, q2, Append(chars, ESCAPES[char2]),
                                    col_map \o <<i, i>>, i + 1)
               ELSE IF char2 = "u"
               THEN LET bad == {k \in 0 .. 3 : peek(s, q2 + k) \notin HEX}
                    IN IF bad # {}
                       THEN [char |-> char2,
                             pos |-> LET k == CHOOSE x \in bad : \A y \in bad : x <= y
                                     IN next(s, q2 + k),
                             chars |-> chars, col_map |-> col_map,
                             err |-> "error.syntax.json_str_u_escape"]
                       ELSE JsonString_loop(s, q2 + 4,
                                Append(chars, chr(HexVal(s[q2]) * 4096 + HexVal(s[q2 + 1]) * 256
                                                  + HexVal(s[q2 + 2]) * 16 + HexVal(s[q2 + 3]))),
                                col_map \o <<i, i, i, i, i, i>>, i + 1)
               ELSE IF char2 # EOF
                    THEN JsonString_loop(s, q2, chars \o <<BSL, char2>>,
                                         col_map \o <<i, i + 1>>, i + 2)
                    ELSE JsonString_loop(s, q2, Append(chars, BSL), Append(col_map, i), i + 1)
       ELSE JsonString_loop(s, q, Append(chars, char), Append(col_map, i), i + 1)

\* list.index(x): the first index of x, counted from 0.
index(l, x) == (CHOOSE k \in 1 .. Len(l) : l[k] = x /\ \A h \in 1 .. (k - 1) : l[h] # x) - 1

\* _get_loc(m) of a mark of the submarker, for the decoded string.
get_loc(col_map, p1, string, m) ==
    <<p1 + index(col_map, column0(string, m.b)), p1 + index(col_map, column0(string, m.e))>>

\* The marks of the submarker of a parse that did not fail, at the
\* locations _get_loc gives.
translated(sub, col_map, p1, string) ==
    LET loc(m) == get_loc(col_map, p1, string, m)
    IN [fm |-> [x \in 1 .. Len(sub.font_marks) |->
                  FontMark(loc(sub.font_marks[x])[1], loc(sub.font_marks[x])[2],
                           sub.font_marks[x].font)],
        am |-> [x \in 1 .. Len(sub.ac_marks) |->
                  AutoCompletingMark(loc(sub.ac_marks[x])[1], loc(sub.ac_marks[x])[2],
                                     sub.ac_marks[x].node)]]

\* A marking that leaves the body of a string whose sub-parse failed
\* without a mark.
JsonString_marking_failed_unmarked(n, lib, body, pos_begin, v) ==
    LET pos_end == body.pos
        p1 == pos_begin + 1
        p2 == pos_end - 1
        around(inner) ==
            [fm |-> <<FontMark(pos_begin, p1, "meta"), FontMark(p2, pos_end, "meta")>> \o inner.fm,
             am |-> <<AutoCompletingMark(p2, pos_end, n)>> \o inner.am]
        marks(sub) ==
            around(IF sub.failed THEN [fm |-> <<>>, am |-> <<>>]
                   ELSE translated(sub, body.col_map, p1, body.chars))
    IN marks(IF lib = "None" THEN [failed |-> TRUE, font_marks |-> <<>>, ac_marks |-> <<>>]
             ELSE subparse(lib, body.chars, v))

\* The marking half of _JsonString._parse: the marks appended to the marker
\* for the string read as `body` from pos_begin.
JsonString_marking(n, lib, body, pos_begin, v) ==
    LET pos_end == body.pos
        p1 == pos_begin + 1
        p2 == pos_end - 1
        around(inner) ==
            [fm |-> <<FontMark(pos_begin, p1, "meta"), FontMark(p2, pos_end, "meta")>> \o inner.fm,
             am |-> <<AutoCompletingMark(p2, pos_end, n)>> \o inner.am]
        marks(sub) ==
            around(IF sub.failed THEN [fm |-> <<FontMark(p1, p2, "string")>>, am |-> <<>>]
                   ELSE translated(sub, body.col_map, p1, body.chars))
    IN marks(IF lib = "None" THEN [failed |-> TRUE, font_marks |-> <<>>, ac_marks |-> <<>>]
             ELSE subparse(lib, body.chars, v))

\* _JsonString._parse of node n with the #lib entry lib on source s at
\* position pos_begin, at version v.  The result carries the marks
\* appended to the marker.
JsonString_parse(n, lib, s, pos_begin, v) ==
    IF peek(s, pos_begin) # DQ THEN Raise(next(s, pos_begin), "error.expect.quoted_str")
    ELSE LET body == JsonString_loop(s, pos_begin + 1, <<>>, <<>>, 0)
         IN IF body.err # "" THEN Raise(body.pos, body.err)
            ELSE IF body.char # DQ THEN Raise(body.pos, "error.syntax.unclosed_str")
            ELSE LET marked(marks) ==
                         [Ok(body.pos, Join(body.chars)) EXCEPT !.fm = marks.fm, !.am = marks.am]
                 IN marked(JsonString_marking(n, lib, body, pos_begin, v))

\* tree.parse(marker) of Json.__parse_node for a Float or Boolean node:
\* Empty -> node -> Finish.  The node ends an argument, so the branch to
\* Finish takes a terminator.  The node's autocompletion mark is replaced
\* by one of the Json node over the same span.
Json_parse_node(n, r, font, s, p) ==
    IF ~r.ok THEN r
    ELSE LET c == peek(s, r.pos)
             marked == [r EXCEPT !.fm = <<FontMark(p, r.pos, font)>>,
                                 !.am = <<AutoCompletingMark(p, r.pos, n)>>]
         IN IF c = " " THEN [marked EXCEPT !.pos = r.pos + 1]
            ELSE IF is_line_end(c) THEN marked
            ELSE Raise(r.pos, "error.expect.terminator")

\* tree.parse(marker) of Json.__parse_node for a _JsonString: it ends no
\* argument, and an autocompletion mark of the Json node over the last
\* character read is appended.
Json_parse_string(n, r) ==
    IF ~r.ok THEN r
    ELSE [r EXCEPT !.am = r.am \o <<AutoCompletingMark(r.pos - 1, r.pos, n)>>]

\* The result q of what follows r: the marks of both when q succeeded.
Then(r, q) == IF q.ok THEN [q EXCEPT !.fm = r.fm \o q.fm, !.am = r.am \o q.am] ELSE q

\* A Char node n of the tree of an object or an array, with its marks.
Json_char(n, char, s, p) ==
    LET marked(r) ==
            IF r.ok THEN [r EXCEPT !.fm = <<FontMark(p, r.pos, "default")>>,
                                   !.am = <<AutoCompletingMark(p, r.pos, n)>>]
            ELSE r
    IN marked(Char_parse(char, s, p))

\* The terminator the engine takes after a Json node, which ends an
\* argument, before it descends into the node's branch.
Json_terminated(r, s) ==
    IF ~r.ok THEN r
    ELSE IF peek(s, r.pos) = " " THEN [r EXCEPT !.pos = r.pos + 1]
    ELSE IF is_line_end(peek(s, r.pos)) THEN r
    ELSE Raise(r.pos, "error.expect.terminator")

\* Of two failed branches, the one that read further; the first of two that
\* read as far.
Farthest(a, b) == IF b.pos > a.pos THEN b ELSE a

\* Json._parse of node n on source s from position p, with the trees of
\* Json.__object and Json.__array: Series(begin, end, ",", content,
\* empty_ok=True) under Empty().branch(tree.finish()), parsed by the engine.
\* Json_open is the engine after begin (the branches content and end_),
\* Json_content the content node (_JsonKeyValPair for an object, a Json for
\* an array) and what follows it, Json_rest the branches of the content (the
\* separator and end_).  The strings have no #lib entry: no sub-marker is
\* made for them and the version is not read.
RECURSIVE Json_parse(_, _, _)
RECURSIVE Json_content(_, _, _, _)
RECURSIVE Json_rest(_, _, _, _)

Json_open(n, object, s, p) ==
    LET or_end(a) ==
            IF a.ok THEN a
            ELSE LET other(b) == IF b.ok THEN b ELSE Farthest(a, b)
                 IN other(Json_char(n \o ".end_", IF object THEN "}" ELSE "]", s, p))
    IN or_end(Json_content(n, object, s, p))

Json_content(n, object, s, p) ==
    LET after_value(v) == IF v.ok THEN Then(v, Json_rest(n, object, s, v.pos)) ELSE v
        value(q) == after_value(Json_terminated(Json_parse(n \o ".value", s, q), s))
        after_colon(c) == IF c.ok THEN Then(c, value(c.pos)) ELSE c
        after_key(k) ==
            IF k.ok THEN Then(k, after_colon(Json_char(n \o ".colon", ":", s, k.pos))) ELSE k
    IN IF object
       THEN after_key(JsonString_parse(n \o ".key", "None", s, p, <<0, 0, 0>>))
       ELSE value(p)

Json_rest(n, object, s, p) ==
    LET after_sep(c) == IF c.ok THEN Then(c, Json_content(n, object, s, c.pos)) ELSE c
        or_end(a) ==
            IF a.ok THEN a
            ELSE LET other(b) == IF b.ok THEN b ELSE Farthest(a, b)
                 IN other(Json_char(n \o ".end_", IF object THEN "}" ELSE "]", s, p))
    IN or_end(after_sep(Json_char(n \o ".sep", ",", s, p)))

\* Json.__parse_node for the Series of an object or an array: the last
\* autocompletion mark, of the closing character, is replaced by one of the
\* Json node over the same span.
Json_parse_series(n, r) ==
    IF ~r.ok THEN r
    ELSE [r EXCEPT !.am = SubSeq(r.am, 1, Len(r.am) - 1)
                          \o <<AutoCompletingMark(r.am[Len(r.am)].b, r.am[Len(r.am)].e, n)>>]

Json_parse(n, s, p) ==
    LET q == skip_spaces(s, p)
        char == peek(s, q)
        series(object) ==
            LET opened(b) == Then(b, Json_open(n, object, s, b.pos))
            IN Json_parse_series(n, opened(Json_char(n \o ".begin", char, s, q)))
    IN IF char \in DIGITS \/ char = "-"
       THEN Json_parse_node(n, Float_parse(s, q), "numeric", s, q)
       ELSE IF char = DQ
            THEN Json_parse_string(n, JsonString_parse(n, "None", s, q, <<0, 0, 0>>))
       ELSE IF char = "{" THEN series(TRUE)
       ELSE IF char = "[" THEN series(FALSE)
       ELSE IF char = "t" \/ char = "f"
            THEN Json_parse_node(n, Boolean_parse(s, q), "numeric", s, q)
            ELSE Raise(q, "error.expect.json")

UPPER == {"A", "C", "E", "G", "M", "R", "S", "T", "X", "Y", "Z"}

\* str.lower() on one character, for the letters of the model's inputs.
LowerChar(c) ==
    CASE c = "A" -> "a" [] c = "C" -> "c" [] c = "E" -> "e" [] c = "G" -> "g"
      [] c = "M" -> "m" [] c = "R" -> "r" [] c = "S" -> "s" [] c = "T" -> "t"
      [] c = "X" -> "x" [] c = "Y" -> "y" [] c = "Z" -> "z" [] OTHER -> c

lower(cs) == [i \in 1 .. Len(cs) |-> LowerChar(cs[i])]

KeywordCaseInsensitive_parse(word, s, p) ==
    LET w == read_word(s, p)
    IN IF Join(lower(SubSeq(s, p, w.pos - 1))) # word
       THEN Raise(w.pos, "error.expect.keyword")
       ELSE Ok(w.pos, NoVal)

\* re.finditer(RE_SUBSTITUTION, string) of _RawtextTranslate: the spans of
\* the matches of %%[s1-9] from character i on, counted from 0.
RECURSIVE finditer(_, _)
finditer(cs, i) ==
    IF i + 2 > Len(cs) THEN <<>>
    ELSE IF cs[i] = "%" /\ cs[i + 1] = "%" /\ cs[i + 2] \in ({"s"} \cup (DIGITS \ {"0"}))
         THEN <<<<i - 1, i + 2>>>> \o finditer(cs, i + 3)
         ELSE finditer(cs, i + 1)

\* _RawtextTranslate._parse
RawtextTranslate_parse(n, s, p) ==
    LET r == read_until_eol(s, p)
        spans == finditer(SubSeq(s, p, r.pos - 1), 1)
    IN [Ok(r.pos, NoVal) EXCEPT
            !.fm = <<FontMark(p, r.pos, "string")>>
                   \o [x \in 1 .. Len(spans) |->
                          FontMark(p + spans[x][1], p + spans[x][2], "meta")],
            !.am = <<AutoCompletingMark(p, r.pos, n)>>]

\* node._parse(reader) (or _parse(marker) for a SubparsingNode) of node n
\* on source s at position p, for the nodes that are no JSON value.
LeafParse(g, n, s, p) ==
    LET k == g[n].kind
        a == g[n].arg
    IN CASE k = "Empty" -> Ok(p, NoVal)
         [] k = "Char" -> Char_parse(a, s, p)
         [] k = "Chars" -> Chars_parse(a, s, p)
         [] k \in {"Integer", "IntegerNoEnd"} -> Integer_parse(s, p)
         [] k = "Float" -> Float_parse(s, p)
         [] k = "OffsetFloat" -> OffsetFloat_parse(s, p)
         [] k = "Word" -> Word_parse(s, p)
         [] k = "Boolean" -> Boolean_parse(s, p)
         [] k = "NamespacedId" -> NamespacedId_parse(s, p)
         [] k = "Keyword" -> Keyword_parse(a, s, p)
         [] k = "KeywordCaseInsensitive" -> KeywordCaseInsensitive_parse(a, s, p)
         [] k = "Enumerate" -> Enumerate_parse(a, s, p)
         [] k = "Swizzle" -> Swizzle_parse(s, p)
         [] k = "QuotedString" -> QuotedString_parse(n, s, p)
         [] k = "BareText" -> BareText_parse(a, s, p)
         [] k = "_RawtextTranslate" -> RawtextTranslate_parse(n, s, p)
         [] k = "EOL" -> EOL_parse(s, p)

\* node._parse of any node n.
NodeParse(g, n, s, p) ==
    IF g[n].kind = "Json" THEN Json_parse(n, s, p) ELSE LeafParse(g, n, s, p)

\* A range check that excludes its bounds.
Checker_exclusive(chk, res) ==
    CASE chk.op = "ranged" ->
            IF (chk.nolo \/ chk.lo < res) /\ (chk.nohi \/ res < chk.hi) THEN ""
            ELSE "error.semantic.number.out_of_range"
      [] chk.op = "none_of" ->
            IF res \in chk.nums THEN "error.semantic.number.cant_be" ELSE ""
      [] chk.op = "one_of" ->
            IF res \notin chk.nums THEN "error.semantic.number.must_be" ELSE ""
      [] OTHER -> ""

\* The checker functions of Numeric.ranged / none_of / one_of: the message
\* key of the SemanticError raised for value res, "" when none is raised.
Checker(chk, res) ==
    CASE chk.op = "ranged" ->
            IF (chk.nolo \/ chk.lo <= res) /\ (chk.nohi \/ res <= chk.hi) THEN ""
            ELSE "error.semantic.number.out_of_range"
      [] chk.op = "none_of" ->
            IF res \in chk.nums THEN "error.semantic.number.cant_be" ELSE ""
      [] chk.op = "one_of" ->
            IF res \notin chk.nums THEN "error.semantic.number.must_be" ELSE ""
      [] OTHER -> ""

MINECRAFT == <<"m", "i", "n", "e", "c", "r", "a", "f", "t", ":">>

\* BlockSpec._tree._set_block_id, on the characters of the value.
set_block_id(value) ==
    IF Len(value) >= 10 /\ SubSeq(value, 1, 10) = MINECRAFT
    THEN Join(SubSeq(value, 11, Len(value)))
    ELSE Join(value)


\* ------------------------------------------------------------------------
\* Marker (spec.md 4.B)
\* ------------------------------------------------------------------------
MarkerState(p, fm, am, fs, ck) ==
    [pos |-> p, font_marks |-> fm, ac_marks |-> am, font_stack |-> fs, checkers |-> ck]

\* Marker.snapshot(): the reader position and the lengths of the lists.
snapshot(m) ==
    [pos |-> m.pos, fm |-> Len(m.font_marks), am |-> Len(m.ac_marks),
     fs |-> Len(m.font_stack), ck |-> Len(m.checkers)]

Truncate(l, n) == SubSeq(l, 1, IF n < Len(l) THEN n ELSE Len(l))

\* A restore that rewinds the reader but keeps the font marks.
restore_keeps_font_marks(m, s) ==
    MarkerState(s.pos, m.font_marks, Truncate(m.ac_marks, s.am),
                Truncate(m.font_stack, s.fs), Truncate(m.checkers, s.ck))

\* Marker.restore(s): rewinds the reader and truncates the lists.
restore(m, s) ==
    MarkerState(s.pos, Truncate(m.font_marks, s.fm), Truncate(m.ac_marks, s.am),
                Truncate(m.font_stack, s.fs), Truncate(m.checkers, s.ck))

\* ------------------------------------------------------------------------
\* Parse engine (spec.md 4.D)
\* ------------------------------------------------------------------------
NoErr == [key |-> "", b |-> 0, e |-> 0, node |-> ""]

Failure(key, b, e, n) == [key |-> key, b |-> b, e |-> e, node |-> n]

\* The record of a raised failure: the failure, and how many font marks the
\* marker held when it was raised.
Raised(f, n) == [key |-> f.key, b |-> f.b, e |-> f.e, node |-> f.node, marks |-> n]

\* A best error that a later failure of the same reach replaces.
BestError_last(best, e) == IF best = NoErr \/ e.e >= best.e THEN e ELSE best

\* The best error of a branch point: the failure that reached the largest
\* reader position; of two that reached the same, the earlier one.
BestError(best, e) == IF best = NoErr \/ e.e > best.e THEN e ELSE best

\* The first branch after index bi whose version predicate holds, 0 if none.
NextBranch(g, n, bi, v) ==
    LET br == g[n].br
        S == {i \in (bi + 1) .. Len(br) : VersionFilter(br[i].ver, v)}
    IN IF S = {} THEN 0 ELSE CHOOSE i \in S : \A j \in S : i <= j

\* Whether a terminator is required before descending from node n into b.
NeedTerminator(g, n, b) == (argument_end(g[n].kind) /\ ~b.close) \/ b.rae

\* The font of a node: its own, else the top of the font stack, else default.
ChosenFont(g, n, fs) ==
    IF g[n].font # "" THEN g[n].font
    ELSE IF fs # <<>> THEN fs[Len(fs)] ELSE "default"

Diagnostic(key, b, e, kw) == [key |-> key, b |-> b, e |-> e, kw |-> kw]

\* Marker.trigger_checkers(): the diagnostics of the deferred checkers.
RECURSIVE trigger_checkers(_)
trigger_checkers(cks) ==
    IF cks = <<>> THEN <<>>
    ELSE LET c == Head(cks)
             key == Checker(c.chk, c.val)
         IN (IF key = "" THEN <<>> ELSE <<Diagnostic(key, c.b, c.e, c.chk)>>)
            \o trigger_checkers(Tail(cks))

Frame(n) == [node |-> n, bi |-> 0,
             snap |-> snapshot(MarkerState(1, <<>>, <<>>, <<>>, <<>>)),
             pre |-> MarkerState(1, <<>>, <<>>, <<>>, <<>>),
             best |-> NoErr, failed |-> <<>>]

Top == stack[Len(stack)]

SetTop(f) == [stack EXCEPT ![Len(stack)] = f]

Marker == MarkerState(pos, font_marks, ac_marks, font_stack, checkers)

SetMarker(m) ==
    /\ pos' = m.pos
    /\ font_marks' = m.font_marks
    /\ ac_marks' = m.ac_marks
    /\ font_stack' = m.font_stack
    /\ checkers' = m.checkers

\* The callback of ResultTracked on node n, for the value parsed from
\* src[b .. e-1] with result r.
Tracked(g, n, r, b, e, flds) ==
    LET tr == g[n].track
    IN IF tr.cb = "" THEN flds
       ELSE [flds EXCEPT ![tr.owner] =
                IF tr.cb = "set_block_id" THEN set_block_id(SubSeq(src, b, e - 1))
                ELSE r.val]

\* The attributes the parse rule of node n writes on the node itself before
\* it reads a character: Json._parse stores the marker, the reader and the
\* name of the definition entry on self.
SelfWrites(g, n, flds) ==
    IF g[n].kind = "Json" THEN [flds EXCEPT ![n] = g[n].arg] ELSE flds

\* Step 2 of the algorithm: the node's parse rule runs at the reader; on
\* success the marks are pushed and the checkers scheduled, and a Finish
\* node accepts the line.
EnterNode ==
    /\ pc = "enter"
    /\ \E g \in {Arena} : \E r \in {NodeParse(g, cur, src, pos)} :
       LET n == cur
           k == g[n].kind
           font == ChosenFont(g, n, font_stack)
           own == ~SubparsingNode(k) /\ k # "Empty"
       IN /\ pos' = r.pos
          /\ font_stack' = font_stack \o r.push
          /\ font_marks' = font_marks \o
                (IF r.ok /\ own THEN <<FontMark(pos, r.pos, font)>> ELSE r.fm)
          /\ ac_marks' = ac_marks \o
                (IF r.ok /\ own THEN <<AutoCompletingMark(pos, r.pos, n)>> ELSE r.am)
          /\ checkers' =
                IF r.ok /\ g[n].chk.op # "none"
                THEN Append(checkers, [val |-> r.val, chk |-> g[n].chk,
                                       b |-> pos, e |-> r.pos])
                ELSE checkers
          /\ fields' = IF r.ok THEN Tracked(g, n, r, pos, r.pos, SelfWrites(g, n, fields))
                       ELSE SelfWrites(g, n, fields)
          /\ err' = IF r.ok THEN NoErr ELSE Failure(r.err, pos, r.pos, n)
          /\ failures' = IF r.ok THEN failures
                         ELSE Append(failures, Raised(err', Len(font_marks')))
          /\ pc' = IF ~r.ok THEN "fail" ELSE IF Finish(k) THEN "accepted" ELSE "branch"
          /\ stack' = IF r.ok /\ ~Finish(k) THEN Append(stack, Frame(n)) ELSE stack
    /\ UNCHANGED <<src, version, cur, diags, outcome, sugg, walk, conc, lab_vars>>

\* Step 3a/3b: the next enabled branch is taken: a snapshot, the terminator
\* when one is required, and the descent into the branch's target.
Descend ==
    /\ pc = "branch"
    /\ \E g \in {Arena} :
       LET f == Top
           j == NextBranch(g, f.node, f.bi, version)
       IN /\ j # 0
          /\ LET b == g[f.node].br[j]
                 need == NeedTerminator(g, f.node, b)
                 c == peek(src, pos)
             IN /\ need => (c = " " \/ is_line_end(c))
                /\ pos' = IF need /\ c = " " THEN pos + 1 ELSE pos
                /\ stack' = SetTop([f EXCEPT !.bi = j, !.snap = snapshot(Marker),
                                             !.pre = Marker])
                /\ cur' = b.to
    /\ pc' = "enter"
    /\ UNCHANGED <<src, version, font_marks, ac_marks, font_stack, checkers,
                   err, diags, outcome, fields, failures, sugg, walk, conc, lab_vars>>

\* Step 3a: the required terminator is missing: the branch fails.
TerminatorMissing ==
    /\ pc = "branch"
    /\ \E g \in {Arena} :
       LET f == Top
           j == NextBranch(g, f.node, f.bi, version)
       IN /\ j # 0
          /\ LET b == g[f.node].br[j]
                 c == peek(src, pos)
                 e == Failure("error.expect.terminator", pos, pos, f.node)
             IN /\ NeedTerminator(g, f.node, b)
                /\ ~(c = " " \/ is_line_end(c))
                /\ stack' = SetTop([f EXCEPT !.bi = j, !.best = BestError(f.best, e),
                                             !.failed = Append(f.failed, j)])
                /\ failures' = Append(failures, Raised(e, Len(font_marks)))
    /\ UNCHANGED <<src, version, pos, font_marks, ac_marks, font_stack, checkers,
                   pc, cur, err, diags, outcome, fields, sugg, walk, conc, lab_vars>>

\* Step 3d: the branch failed: the snapshot is restored and the failure
\* retained if it is the deepest.
BranchFail ==
    /\ pc = "fail"
    /\ LET f == Top
       IN /\ SetMarker(restore(Marker, f.snap))
          /\ stack' = SetTop([f EXCEPT !.best = BestError(f.best, err),
                                       !.failed = Append(f.failed, f.bi)])
    /\ pc' = "branch"
    /\ err' = NoErr
    /\ UNCHANGED <<src, version, cur, diags, outcome, fields, failures, sugg, walk, conc, lab_vars>>

\* Step 3d/4: no branch is left: the node fails with its best error; at the
\* root the best error is the line's diagnostic.
AllFailed ==
    /\ pc = "branch"
    /\ \E g \in {Arena} :
       LET f == Top
       IN /\ NextBranch(g, f.node, f.bi, version) = 0
          /\ stack' = SubSeq(stack, 1, Len(stack) - 1)
          /\ IF Len(stack) = 1
             THEN /\ diags' = <<Diagnostic(f.best.key, f.best.b, f.best.e, NoChk)>>
                  /\ pc' = "done"
                  /\ outcome' = "reject"
                  /\ err' = NoErr
             ELSE /\ pc' = "fail"
                  /\ err' = f.best
                  /\ UNCHANGED <<diags, outcome>>
    /\ UNCHANGED <<src, version, pos, font_marks, ac_marks, font_stack, checkers,
                   cur, fields, failures, sugg, walk, conc, lab_vars>>

\* After the root accepts, the deferred checkers run.
Accept ==
    /\ pc = "accepted"
    /\ diags' = trigger_checkers(checkers)
    /\ pc' = "done"
    /\ outcome' = "accept"
    /\ UNCHANGED <<src, version, pos, font_marks, ac_marks, font_stack, checkers,
                   stack, cur, err, fields, failures, sugg, walk, conc, lab_vars>>


\* ------------------------------------------------------------------------
\* Suggestions (nodes.py: the _suggest methods and their match rules;
\* spec.md 4.E: the lookup and the production)
\* ------------------------------------------------------------------------
\* The characters of a word of the grammar; a one-character word is itself.
Spell(w) ==
    CASE w = "name" -> <<"n", "a", "m", "e">>
      [] w = "default" -> <<"d", "e", "f", "a", "u", "l", "t">>
      [] w = "spectator" -> <<"s", "p", "e", "c", "t", "a", "t", "o", "r">>
      [] w = "adventure" -> <<"a", "d", "v", "e", "n", "t", "u", "r", "e">>
      [] w = "survival" -> <<"s", "u", "r", "v", "i", "v", "a", "l">>
      [] w = "creative" -> <<"c", "r", "e", "a", "t", "i", "v", "e">>
      [] w = "item" -> <<"i", "t", "e", "m">>
      [] w = "data" -> <<"d", "a", "t", "a">>
      [] w = "quantity" -> <<"q", "u", "a", "n", "t", "i", "t", "y">>
      [] w = "location" -> <<"l", "o", "c", "a", "t", "i", "o", "n">>
      [] w = "slot" -> <<"s", "l", "o", "t">>
      [] w = "tag" -> <<"t", "a", "g">>
      [] w = "enabled" -> <<"e", "n", "a", "b", "l", "e", "d">>
      [] w = "disabled" -> <<"d", "i", "s", "a", "b", "l", "e", "d">>
      [] w = "rm" -> <<"r", "m">>
      [] w = "dx" -> <<"d", "x">>
      [] w = "dy" -> <<"d", "y">>
      [] w = "dz" -> <<"d", "z">>
      [] w = "scores" -> <<"s", "c", "o", "r", "e", "s">>
      [] w = "type" -> <<"t", "y", "p", "e">>
      [] w = "family" -> <<"f", "a", "m", "i", "l", "y">>
      [] w = "rx" -> <<"r", "x">>
      [] w = "rxm" -> <<"r", "x", "m">>
      [] w = "ry" -> <<"r", "y">>
      [] w = "rym" -> <<"r", "y", "m">>
      [] w = "hasitem" -> <<"h", "a", "s", "i", "t", "e", "m">>
      [] w = "lm" -> <<"l", "m">>
      [] w = "haspermission" -> <<"h", "a", "s", "p", "e", "r", "m", "i", "s", "s", "i", "o", "n">>
      [] w = "entity" -> <<"e", "n", "t", "i", "t", "y">>
      [] w = "initiator" -> <<"i", "n", "i", "t", "i", "a", "t", "o", "r">>
      [] w = "block" -> <<"b", "l", "o", "c", "k">>
      [] w = "blocks" -> <<"b", "l", "o", "c", "k", "s">>
      [] w = "all" -> <<"a", "l", "l">>
      [] w = "masked" -> <<"m", "a", "s", "k", "e", "d">>
      [] w = "score" -> <<"s", "c", "o", "r", "e">>
      [] w = "matches" -> <<"m", "a", "t", "c", "h", "e", "s">>
      [] w = "eyes" -> <<"e", "y", "e", "s">>
      [] w = "feet" -> <<"f", "e", "e", "t">>
      [] w = "align" -> <<"a", "l", "i", "g", "n">>
      [] w = "anchored" -> <<"a", "n", "c", "h", "o", "r", "e", "d">>
      [] w = "as" -> <<"a", "s">>
      [] w = "at" -> <<"a", "t">>
      [] w = "facing" -> <<"f", "a", "c", "i", "n", "g">>
      [] w = "in" -> <<"i", "n">>
      [] w = "overworld" -> <<"o", "v", "e", "r", "w", "o", "r", "l", "d">>
      [] w = "nether" -> <<"n", "e", "t", "h", "e", "r">>
      [] w = "the_end" -> <<"t", "h", "e", "_", "e", "n", "d">>
      [] w = "positioned" -> <<"p", "o", "s", "i", "t", "i", "o", "n", "e", "d">>
      [] w = "rotated" -> <<"r", "o", "t", "a", "t", "e", "d">>
      [] w = "if" -> <<"i", "f">>
      [] w = "unless" -> <<"u", "n", "l", "e", "s", "s">>
      [] w = "run" -> <<"r", "u", "n">>
      [] w = "help" -> <<"h", "e", "l", "p">>
      [] w = "locate" -> <<"l", "o", "c", "a", "t", "e">>
      [] w = "biome" -> <<"b", "i", "o", "m", "e">>
      [] w = "structure" -> <<"s", "t", "r", "u", "c", "t", "u", "r", "e">>
      [] w = "ability" -> <<"a", "b", "i", "l", "i", "t", "y">>
      [] w = "execute" -> <<"e", "x", "e", "c", "u", "t", "e">>
      [] w = "give" -> <<"g", "i", "v", "e">>
      [] w = "tellraw" -> <<"t", "e", "l", "l", "r", "a", "w">>
      [] w = "mayfly" -> <<"m", "a", "y", "f", "l", "y">>
      [] w = "worldbuilder" -> <<"w", "o", "r", "l", "d", "b", "u", "i", "l", "d", "e", "r">>
      [] w = "mute" -> <<"m", "u", "t", "e">>
      [] w = "detect" -> <<"d", "e", "t", "e", "c", "t">>
      [] w = "true" -> <<"t", "r", "u", "e">>
      [] w = "false" -> <<"f", "a", "l", "s", "e">>
      [] w = "xy" -> <<"x", "y">>
      [] w = "yz" -> <<"y", "z">>
      [] w = "xz" -> <<"x", "z">>
      [] w = "xyz" -> <<"x", "y", "z">>
      [] OTHER -> <<w>>

\* RuleWeight: FAILED below every weight a rule gives to a match.
RULEW_FAILED == 0
RULEW_OTHER == 50
RULEW_STR_FIND == 100

\* str.find(pattern) on sequences of characters: the least offset at which
\* pattern occurs in s, -1 if it does not occur.
Find(s, pattern) ==
    LET at == {f \in 0 .. Len(s) - Len(pattern) :
                  SubSeq(s, f + 1, f + Len(pattern)) = pattern}
    IN IF at = {} THEN 0 - 1 ELSE CHOOSE f \in at : \A g \in at : f <= g

\* str_find_rule(s, base): RULEW_FAILED when the pattern is not in s, else
\* the weight of the band less the offset of the match.
str_find_rule(s, base, pattern) ==
    LET f == Find(s, pattern)
    IN IF f = 0 - 1 THEN RULEW_FAILED ELSE base - f

\* char_check_rule(checker): every character of s passes the checker; the
\* checker is the set of characters it accepts, or the set it refuses.
char_check_rule(accepts, refuses, s) ==
    IF \A i \in 1 .. Len(s) : s[i] \in accepts /\ s[i] \notin refuses
    THEN RULEW_OTHER ELSE RULEW_FAILED

\* char_rule(char)
char_rule(char, s) ==
    IF s = <<>> \/ s = <<char>> THEN RULEW_OTHER ELSE RULEW_FAILED

AnyChar == DIGITS \cup SIGNS \cup TERMINATORS \cup NAMESPACEDID
           \cup {".", "~", "^", "!", "=", "*", "@", "[", "]", "{", "}", "?", ",", DQ, BSL, TAB}

Rule(op, arg) == [op |-> op, arg |-> arg]

Suggestion(name, writes, rule) == [name |-> name, writes |-> writes, rule |-> rule]

\* suggestion.match_rule(s)
match_rule(rule, s) ==
    CASE rule.op = "char" -> char_rule(rule.arg, s)
      [] rule.op = "char_check" -> char_check_rule(rule.arg, {}, s)
      [] rule.op = "char_refuse" -> char_check_rule(AnyChar, rule.arg, s)
      [] rule.op = "str_find" -> str_find_rule(Spell(rule.arg), RULEW_STR_FIND, s)
      [] rule.op = "str_find_other" -> str_find_rule(Spell(rule.arg), RULEW_OTHER, s)
      [] rule.op = "chars_find" -> str_find_rule(rule.arg, RULEW_STR_FIND, s)
      [] rule.op = "find_lower" ->
            \* KeywordCaseInsensitive._rule
            LET f == Find(Spell(rule.arg), lower(s))
            IN IF f = 0 - 1 THEN RULEW_FAILED ELSE RULEW_STR_FIND - f
      [] rule.op = "quoted" ->
            \* QuotedString._rule
            IF s = <<>> \/ s[1] = DQ THEN RULEW_OTHER ELSE RULEW_FAILED
      [] rule.op = "empty" ->
            \* EOL._rule
            IF s = <<>> THEN RULEW_OTHER ELSE RULEW_FAILED
      [] OTHER -> RULEW_OTHER

\* A set of words as a sequence, in a fixed order.
RECURSIVE SetToSeq(_)
SetToSeq(S) ==
    IF S = {} THEN <<>>
    ELSE LET x == CHOOSE y \in S : TRUE IN <<x>> \o SetToSeq(S \ {x})

\* node._suggest() of node n.  The ids of an IdSuggestion come from the id
\* table, which is not part of this model: a NamespacedId suggests nothing.
Suggest(g, n) ==
    LET k == g[n].kind
        a == g[n].arg
    IN CASE k = "Char" -> <<Suggestion("autocomp.char", a, Rule("char", a))>>
         [] k \in {"Integer", "IntegerNoEnd"} ->
              <<Suggestion("autocomp.integer", "0", Rule("char_check", DIGITS \cup SIGNS))>>
         [] k = "Float" ->
              <<Suggestion("autocomp.float", "0.0",
                           Rule("char_check", DIGITS \cup SIGNS \cup {"."}))>>
         [] k = "OffsetFloat" ->
              <<Suggestion("autocomp.offset_float", "0",
                           Rule("char_check", DIGITS \cup SIGNS \cup {"."}))>>
         [] k = "Word" ->
              IF a # "" THEN <<>>
              ELSE <<Suggestion("autocomp.word", "word", Rule("char_refuse", TERMINATORS))>>
         [] k = "Boolean" ->
              <<Suggestion("autocomp.true", "true", Rule("str_find", "true")),
                Suggestion("autocomp.false", "false", Rule("str_find", "false"))>>
         [] k = "QuotedString" ->
              <<Suggestion("autocomp.quoted_string", "string", Rule("quoted", ""))>>
         [] k = "Keyword" -> <<Suggestion("autocomp.keyword", a, Rule("str_find", a))>>
         [] k = "KeywordCaseInsensitive" ->
              <<Suggestion("autocomp.keyword", a, Rule("find_lower", a))>>
         [] k = "Enumerate" ->
              LET o == SetToSeq(a)
              IN [i \in 1 .. Len(o) |->
                     Suggestion("autocomp.option", o[i], Rule("str_find", o[i]))]
         [] k = "Chars" -> <<Suggestion("autocomp.chars", Join(a), Rule("chars_find", a))>>
         [] k = "BareText" -> <<Suggestion("autocomp.bare_text", "text", Rule("any", ""))>>
         [] k = "Swizzle" ->
              LET o == <<"x", "y", "z", "xy", "yz", "xz", "xyz">>
              IN [i \in 1 .. 7 |->
                     Suggestion("autocomp.swizzle", o[i], Rule("str_find", o[i]))]
         [] k = "EOL" -> <<Suggestion("autocomp.eol", NL, Rule("empty", ""))>>
         [] k = "Json" ->
              <<Suggestion("autocomp.char", "{", Rule("char", "{")),
                Suggestion("autocomp.char", "[", Rule("char", "[")),
                Suggestion("autocomp.true", "true", Rule("str_find_other", "true")),
                Suggestion("autocomp.false", "false", Rule("str_find_other", "false")),
                Suggestion("autocomp.quoted_string", DQ, Rule("char", DQ)),
                Suggestion("autocomp.float", "0.0",
                           Rule("char_check", DIGITS \cup {"-", "."}))>>
         [] OTHER -> <<>>

RECURSIVE Flatten(_)
Flatten(ss) == IF ss = <<>> THEN <<>> ELSE Head(ss) \o Flatten(Tail(ss))

MaxSuggestDepth == 4

\* The suggestions of what comes after node n at version v: those of the
\* targets of its branches, through the nodes that parse nothing and through
\* the is_close branches, to depth d.
RECURSIVE BranchSuggestions(_, _, _, _)
BranchSuggestions(g, n, v, d) ==
    LET br == g[n].br
        of(b) ==
            IF ~VersionFilter(b.ver, v) THEN <<>>
            ELSE Suggest(g, b.to)
                 \o (IF d > 0 /\ (b.close \/ g[b.to].kind = "Empty")
                     THEN BranchSuggestions(g, b.to, v, d - 1) ELSE <<>>)
    IN Flatten([i \in 1 .. Len(br) |-> of(br[i])])

\* A filter that matches the rules against no text instead of the prefix.
DropFailed_no_prefix(l, prefix) ==
    SelectSeq(l, LAMBDA x : match_rule(x.rule, <<>>) # RULEW_FAILED)

\* The suggestions whose rule does not fail on the prefix.
RECURSIVE DropFailed(_, _)
DropFailed(l, prefix) ==
    IF l = <<>> THEN <<>>
    ELSE (IF match_rule(Head(l).rule, prefix) = RULEW_FAILED THEN <<>> ELSE <<Head(l)>>)
         \o DropFailed(Tail(l), prefix)

\* list.sort(key = weight): a stable sort, ascending.
RECURSIVE SortByWeight(_, _)
SortByWeight(l, prefix) ==
    IF l = <<>> THEN <<>>
    ELSE LET w(x) == match_rule(x.rule, prefix)
             least == CHOOSE i \in 1 .. Len(l) :
                         /\ \A j \in 1 .. Len(l) : w(l[i]) <= w(l[j])
                         /\ \A j \in 1 .. i - 1 : w(l[j]) > w(l[i])
             rest == [j \in 1 .. Len(l) - 1 |-> IF j < least THEN l[j] ELSE l[j + 1]]
         IN <<l[least]>> \o SortByWeight(rest, prefix)

\* A production that adds the suggestions of the branches whatever was typed.
Produce_branches_always(g, n, v, prefix) ==
    SortByWeight(
        DropFailed(Suggest(g, n) \o BranchSuggestions(g, n, v, MaxSuggestDepth), prefix),
        prefix)

\* The unit of a mark yields its suggestions for the prefix typed so far.
Produce(g, n, v, prefix) ==
    SortByWeight(
        DropFailed(Suggest(g, n) \o (IF prefix = <<>>
                                  THEN BranchSuggestions(g, n, v, MaxSuggestDepth)
                                  ELSE <<>>),
                   prefix),
        prefix)

NoSugg == [c |-> 0, begin |-> 0, node |-> "", list |-> <<>>]

\* suggestions_at(c): a mark whose span contains column c yields the
\* suggestions for the text between its begin and c.
suggestions_at(g, c, m) ==
    [c |-> c, begin |-> m.b, node |-> m.node,
     list |-> Produce(g, m.node, version, SubSeq(src, m.b, c - 1))]

SuggestionsAt ==
    /\ pc = "done"
    /\ \E g \in {Arena} : \E c \in 1 .. Len(src) : \E i \in 1 .. Len(ac_marks) :
          /\ ac_marks[i].b <= c
          /\ c <= ac_marks[i].e
          /\ sugg' = suggestions_at(g, c, ac_marks[i])
    /\ UNCHANGED <<src, version, pos, font_marks, ac_marks, font_stack, checkers,
                   stack, pc, cur, err, diags, outcome, fields, failures, walk, conc, lab_vars>>


\* ------------------------------------------------------------------------
\* The grammar graph as a graph: which nodes the engine can pass without
\* reading a character
\* ------------------------------------------------------------------------
\* The texts a parse rule is probed with: nothing, and each character.
Probes == {<<>>} \cup {<<c>> : c \in AnyChar}

\* Whether the parse rule of node n can succeed without advancing the reader.
Nullable(g, n) == \E s \in Probes : \E r \in {NodeParse(g, n, s, 1)} : r.ok /\ r.pos = 1

NoWalk == [node |-> "", since |-> {}, looped |-> FALSE]

\* The engine descends into a branch whose target succeeds without reading:
\* the reader has not advanced since the nodes of `since` were entered (a
\* terminator that is a line end is not consumed).
WalkZero ==
    /\ walk.node # ""
    /\ ~walk.looped
    /\ \E g \in {Arena} : \E i \in 1 .. Len(g[walk.node].br) :
          LET m == g[walk.node].br[i].to
          IN /\ Nullable(g, m)
             /\ walk' = [node |-> m, since |-> walk.since \cup {m},
                         looped |-> m \in walk.since]
    /\ UNCHANGED <<engine_vars, conc, lab_vars>>

\* The engine descends into a branch whose target reads at least one
\* character.
WalkConsume ==
    /\ walk.node # ""
    /\ ~walk.looped
    /\ \E g \in {Arena} : \E i \in 1 .. Len(g[walk.node].br) :
          LET m == g[walk.node].br[i].to
          IN /\ g[m].kind # "Empty"
             /\ walk' = [node |-> m, since |-> {m}, looped |-> FALSE]
    /\ UNCHANGED <<engine_vars, conc, lab_vars>>

\* ------------------------------------------------------------------------
\* Two threads over the shared grammar: each runs Json._parse on its own
\* marker, or records a block id and later reads the path of its block
\* states (BlockSpec._tree: _set_block_id, _get_path)
\* ------------------------------------------------------------------------
Threads == {1, 2}

JsonNode == "tellraw.text"

JsonTexts == {<<"1", NL>>, <<" ", "1", NL>>, <<"t", "r", "u", "e", NL>>, <<" ", "1", "2", NL>>}

BlockIds == {<<"s", "t", "o", "n", "e">>, <<"m", "i", "n", "e", "c", "r", "a", "f", "t", ":", "d", "i", "r", "t">>}

Jobs == {[kind |-> "json", text |-> x] : x \in JsonTexts}
        \cup {[kind |-> "block", text |-> x] : x \in BlockIds}

NoConc == [job |-> <<>>, tpc |-> <<>>, pos |-> <<>>, marks |-> <<>>, char |-> <<>>,
           out |-> <<>>, marker |-> 0, reader |-> 0, name |-> "None",
           block_id |-> "None"]

\* What a thread's parse leaves when it runs alone.
Alone(job) ==
    IF job.kind = "json"
    THEN LET r == Json_parse(JsonNode, job.text, 1)
         IN [pos |-> r.pos, marks |-> r.fm \o r.am, out |-> IF r.ok THEN "ok" ELSE r.err]
    ELSE [pos |-> 1, marks |-> <<>>, out |-> set_block_id(job.text)]

ConcStart(jobs) ==
    [job |-> jobs,
     tpc |-> [t \in Threads |-> IF jobs[t].kind = "json" THEN "marker" ELSE "set_id"],
     pos |-> [t \in Threads |-> 1],
     marks |-> [t \in Threads |-> <<>>],
     char |-> [t \in Threads |-> ""],
     out |-> [t \in Threads |-> ""],
     marker |-> 0, reader |-> 0, name |-> "None", block_id |-> "None"]

\* self.marker = marker
JsonSetMarker(t) ==
    /\ conc.tpc[t] = "marker"
    /\ conc' = [conc EXCEPT !.marker = t, !.tpc[t] = "reader"]
    /\ UNCHANGED <<engine_vars, walk, lab_vars>>

\* self.reader = marker.reader
JsonSetReader(t) ==
    /\ conc.tpc[t] = "reader"
    /\ conc' = [conc EXCEPT !.reader = t, !.tpc[t] = "name"]
    /\ UNCHANGED <<engine_vars, walk, lab_vars>>

\* self.__name = self.__get_name()
JsonSetName(t) ==
    /\ conc.tpc[t] = "name"
    /\ \E g \in {Arena} :
          conc' = [conc EXCEPT !.name = g[JsonNode].arg, !.tpc[t] = "skip"]
    /\ UNCHANGED <<engine_vars, walk, lab_vars>>

\* self.__skip_spaces(): on self.reader, the reader the node holds now.
JsonSkipSpaces(t) ==
    /\ conc.tpc[t] = "skip"
    /\ LET u == conc.reader
       IN conc' = [conc EXCEPT !.pos[u] = skip_spaces(conc.job[u].text, conc.pos[u]),
                               !.tpc[t] = "peek"]
    /\ UNCHANGED <<engine_vars, walk, lab_vars>>

\* char = self.reader.peek()
JsonPeek(t) ==
    /\ conc.tpc[t] = "peek"
    /\ LET u == conc.reader
       IN conc' = [conc EXCEPT !.char[t] = peek(conc.job[u].text, conc.pos[u]),
                               !.tpc[t] = "node"]
    /\ UNCHANGED <<engine_vars, walk, lab_vars>>

\* self.__float() / self.__boolean() / raise: __parse_node parses on
\* self.marker, the marker the node holds now.
JsonParseNode(t) ==
    /\ conc.tpc[t] = "node"
    /\ LET u == conc.marker
           s == conc.job[u].text
           q == conc.pos[u]
           char == conc.char[t]
           r == IF char \in DIGITS \/ char = "-"
                THEN Json_parse_node(JsonNode, Float_parse(s, q), "numeric", s, q)
                ELSE IF char = "t" \/ char = "f"
                     THEN Json_parse_node(JsonNode, Boolean_parse(s, q), "numeric", s, q)
                     ELSE Raise(q, "error.expect.json")
       IN conc' = [conc EXCEPT !.pos[u] = r.pos,
                               !.marks[u] = @ \o r.fm \o r.am,
                               !.out[t] = IF r.ok THEN "ok" ELSE r.err,
                               !.tpc[t] = "done"]
    /\ UNCHANGED <<engine_vars, walk, lab_vars>>

\* _set_block_id(value), the callback of ResultTracked(IdBlock(), ...)
BlockSetId(t) ==
    /\ conc.tpc[t] = "set_id"
    /\ conc' = [conc EXCEPT !.block_id = set_block_id(conc.job[t].text),
                            !.tpc[t] = "get_path"]
    /\ UNCHANGED <<engine_vars, walk, lab_vars>>

\* _get_path(): ["block_state", self.__block_id], for the suggestions of
\* the block states.
BlockGetPath(t) ==
    /\ conc.tpc[t] = "get_path"
    /\ conc' = [conc EXCEPT !.out[t] = conc.block_id, !.tpc[t] = "done"]
    /\ UNCHANGED <<engine_vars, walk, lab_vars>>


\* ------------------------------------------------------------------------
\* JSON strings (nodes.py: _JsonString, _RawtextTranslate; spec.md 4.G: the
\* sub-parser bridge)
\* ------------------------------------------------------------------------
\* tree.parse(marker) as one call: the parse engine on graph g from node n
\* with marker m on source s: the node's rule, its marks and checkers, then
\* the enabled branches in order, each from the state the node left.  The
\* trees parsed this way are those of the strings of a JSON value, which
\* hold no JSON value themselves.
\* The engine at node n: with bi = -1 the node's rule is run and its marks
\* and checkers are made; with bi >= 0 the enabled branches after branch bi
\* are tried in order, each from the marker m the node left.
RECURSIVE try_branches(_, _, _, _, _, _)
try_branches(g, n, bi, s, m, v) ==
    IF bi < 0
    THEN LET k == g[n].kind
             own == ~SubparsingNode(k) /\ k # "Empty"
             marked(r) ==
                 MarkerState(
                     r.pos,
                     m.font_marks \o (IF own
                                      THEN <<FontMark(m.pos, r.pos, ChosenFont(g, n, m.font_stack))>>
                                      ELSE r.fm),
                     m.ac_marks \o (IF own THEN <<AutoCompletingMark(m.pos, r.pos, n)>> ELSE r.am),
                     m.font_stack \o r.push,
                     IF g[n].chk.op # "none"
                     THEN Append(m.checkers, [val |-> r.val, chk |-> g[n].chk,
                                              b |-> m.pos, e |-> r.pos])
                     ELSE m.checkers)
             after(r) ==
                 IF ~r.ok THEN [ok |-> FALSE, m |-> m]
                 ELSE IF Finish(k) THEN [ok |-> TRUE, m |-> marked(r)]
                 ELSE try_branches(g, n, 0, s, marked(r), v)
         IN after(LeafParse(g, n, s, m.pos))
    ELSE LET j == NextBranch(g, n, bi, v)
         IN IF j = 0 THEN [ok |-> FALSE, m |-> m]
            ELSE LET b == g[n].br[j]
                     need == NeedTerminator(g, n, b)
                     c == peek(s, m.pos)
                 IN IF need /\ ~(c = " " \/ is_line_end(c))
                    THEN try_branches(g, n, j, s, m, v)
                    ELSE LET r == try_branches(g, b.to, 0 - 1, s,
                                      [m EXCEPT !.pos = IF need /\ c = " " THEN m.pos + 1
                                                        ELSE m.pos], v)
                         IN IF r.ok THEN r ELSE try_branches(g, n, j, s, m, v)

tree_parse(g, n, s, m, v) == try_branches(g, n, 0 - 1, s, m, v)

\* The #lib entries of the definitions of JSON values, "None" for a string
\* without one.
Libs == {"None", "wildcard_selector", "lock_mode", "block", "scoreboard", "translate"}

\* Empty().branch(tree.finish(EOL)) for the tree _JsonString.__get_tree
\* returns for a JSON value with the #lib entry lib.
tree2(lib) ==
    Empty("tree2", <<Br("tree")>>)
    @@ EOLAt("tree.eol")
    @@ CASE lib = "wildcard_selector" -> Wildcard_tree("tree", Selector_tree, <<Fin("tree")>>)
         [] lib = "lock_mode" ->
               Enumerate("tree", {"lock_in_inventory", "lock_in_slot"}, "keyword",
                         <<Fin("tree")>>)
         [] lib = "block" -> NamespacedId("tree", "block", <<Fin("tree")>>)
         [] lib = "scoreboard" -> "tree" :> Node("BareText", FALSE, "scoreboard", <<Fin("tree")>>)
         [] lib = "translate" -> "tree" :> Node("_RawtextTranslate", "", "string", <<Fin("tree")>>)

\* tree2.parse(submarker); submarker.trigger_checkers(): whether a
\* BaseError was raised, and the submarker.
subparse(lib, string, v) ==
    LET parsed(r) ==
            [failed |-> ~r.ok \/ trigger_checkers(r.m.checkers) # <<>>,
             font_marks |-> r.m.font_marks, ac_marks |-> r.m.ac_marks]
    IN parsed(tree_parse(tree2(lib), "tree2", string,
                         MarkerState(1, <<>>, <<>>, <<>>, <<>>), v))

\* The pieces the bodies of the strings of the model are made of: a plain
\* character, a space, the escapes \n, \" and a, the unknown escape
\* \q, a wildcard, a lock mode, a substitution, and a \u escape that is not
\* hexadecimal.
Pieces == {"a", "sp", "nl", "dq", "ua", "q", "star", "lock", "pct", "badu"}

\* The source characters of a piece.
PieceSource(u) ==
    CASE u = "a" -> <<"a">>
      [] u = "sp" -> <<" ">>
      [] u = "nl" -> <<BSL, "n">>
      [] u = "dq" -> <<BSL, DQ>>
      [] u = "ua" -> <<BSL, "u", "0", "0", "6", "1">>
      [] u = "q" -> <<BSL, "q">>
      [] u = "star" -> <<"*">>
      [] u = "lock" -> <<"l", "o", "c", "k", "_", "i", "n", "_", "s", "l", "o", "t">>
      [] u = "pct" -> <<"%", "%", "s">>
      [] u = "badu" -> <<BSL, "u", "0", "0", "g", "1">>

RECURSIVE BodySource(_)
BodySource(us) == IF us = <<>> THEN <<>> ELSE PieceSource(Head(us)) \o BodySource(Tail(us))

MaxPieces == 3

\* A _JsonString node is about to parse a string of pieces us that follows
\* `lead` spaces, closed by a quote or not.
JsonStringStart(lead, us, closed, lib, v) ==
    [phase |-> "start", lead |-> lead, pieces |-> us, closed |-> closed, lib |-> lib,
     ver |-> v,
     text |-> [x \in 1 .. lead |-> " "] \o <<DQ>> \o BodySource(us)
              \o (IF closed THEN <<DQ>> ELSE <<>>),
     res |-> Raise(0, "")]

\* Json.__parse_node reaches the string: _JsonString._parse runs.
JsonStringParse ==
    /\ jstr.phase = "start"
    /\ jstr' = [jstr EXCEPT !.phase = "done",
                            !.res = JsonString_parse("_JsonString", jstr.lib, jstr.text,
                                                     jstr.lead + 1, jstr.ver)]
    /\ UNCHANGED <<engine_vars, walk, conc, dyn, idt, prev, unit>>

\* ------------------------------------------------------------------------
\* Dynamic id suggestions (nodes.py: _DynamicIdSuggestion, DynamicId,
\* BlockSpec._BlockStatePair._kmap_handler)
\* ------------------------------------------------------------------------
\* A value of an id table: null, a label, a list of strings, or a map.
\* A map is the sequence of its items <<key, value>>, in the order of a dict.
JNull == [t |-> "null", s |-> "", l |-> <<>>, m |-> <<>>]
JStr(x) == [t |-> "str", s |-> x, l |-> <<>>, m |-> <<>>]
JList(l) == [t |-> "list", s |-> "", l |-> l, m |-> <<>>]
JMap(items) == [t |-> "map", s |-> "", l |-> <<>>, m |-> items]

\* The keys of a map, in order, and the value of a key.
keys(val) == [i \in 1 .. Len(val.m) |-> val.m[i][1]]
has_key(val, k) == \E i \in 1 .. Len(val.m) : val.m[i][1] = k
get(val, k) == val.m[CHOOSE i \in 1 .. Len(val.m) : val.m[i][1] = k][2]

\* The keys of the id tables of the model.
TableKeys == {"block_state", "int"}

TableLeaves == {JNull, JStr("Label"), JList(<<"a", "b", "a">>)}

\* The maps from some of the keys to values of V.
MapsOver(V) ==
    {JMap(items) : items \in
        {q \in UNION {[1 .. n -> TableKeys \X V] : n \in 0 .. Cardinality(TableKeys)} :
            \A i, j \in 1 .. Len(q) : q[i][1] = q[j][1] => i = j}}

\* The entry of a block whose states are listed by type.
TypedEntry == JMap(<< <<"int", JMap(<< <<"block_state", JList(<<"a", "b", "a">>)>> >>)>> >>)

\* The values of the keys of a table: a leaf, a map of leaves, or a typed entry.
TableValues == TableLeaves \cup MapsOver(TableLeaves) \cup {TypedEntry}

\* id_table.map is a map.
Tables == MapsOver(TableValues)

MaxPath == 3

Paths == UNION {[1 .. k -> TableKeys] : k \in 1 .. MaxPath}

\* A Suggestion with its note.
NotedSuggestion(name, writes, note, rule) ==
    [name |-> name, writes |-> writes, note |-> note, rule |-> rule]

\* orig_suggest() of the nodes DynamicId wraps in _BlockStatePair: a
\* QuotedString, an Integer and a Boolean.
orig_suggest(kind) ==
    CASE kind = "QuotedString" ->
            <<NotedSuggestion("autocomp.quoted_string", "string", "None", Rule("quoted", ""))>>
      [] kind = "Integer" ->
            <<NotedSuggestion("autocomp.integer", "0", "None",
                              Rule("char_check", DIGITS \cup SIGNS))>>
      [] kind = "Boolean" ->
            <<NotedSuggestion("autocomp.true", "true", "None", Rule("str_find", "true")),
              NotedSuggestion("autocomp.false", "false", "None", Rule("str_find", "false"))>>

\* A call that returned, and a call that raised.
Returned(v) == [ok |-> TRUE, val |-> v, raises |-> ""]
Raises(e) == [ok |-> FALSE, val |-> <<>>, raises |-> e]

\* The loop of resolve: val = val[k] for each k of the path, TypeError when
\* val is not a dict, KeyError when it has no k.
RECURSIVE walk_path(_, _)
walk_path(val, path) ==
    IF path = <<>> THEN Returned(val)
    ELSE IF val.t # "map" THEN Raises("TypeError")
    ELSE IF ~has_key(val, Head(path)) THEN Raises("KeyError")
    ELSE walk_path(get(val, Head(path)), Tail(path))

\* '"%s"' % s
Quoted(s) == "\"" \o s \o "\""

\* `k in map_` of Python on a value of an id table: membership of a key in
\* a dict, of an item in a list, of a substring in a str (the labels of the
\* model hold none of the three keys unless they are one); TypeError on None.
py_in(k, val) ==
    CASE val.t = "map" -> Returned(has_key(val, k))
      [] val.t = "list" -> Returned(\E i \in 1 .. Len(val.l) : val.l[i] = k)
      [] val.t = "str" -> Returned(val.s \in {"int", "bool", "str"} /\ val.s = k)
      [] OTHER -> Raises("TypeError")

\* map_[k].keys() of _kmap_handler for one k, quoted.
RECURSIVE kmap_handler_loop(_, _)
kmap_handler_loop(map_, ks) ==
    IF ks = <<>> THEN Returned(<<>>)
    ELSE LET has == py_in(Head(ks), map_)
         IN IF ~has.ok THEN has
            ELSE IF ~has.val THEN kmap_handler_loop(map_, Tail(ks))
            ELSE IF map_.t # "map" THEN Raises("TypeError")
            ELSE IF get(map_, Head(ks)).t # "map" THEN Raises("AttributeError")
            ELSE LET rest == kmap_handler_loop(map_, Tail(ks))
                     ks2 == keys(get(map_, Head(ks)))
                 IN IF ~rest.ok THEN rest
                    ELSE Returned([i \in 1 .. Len(ks2) |-> Quoted(ks2[i])] \o rest.val)

\* BlockSpec._BlockStatePair._tree._kmap_handler
kmap_handler(map_) ==
    LET r == kmap_handler_loop(map_, <<"int", "bool", "str">>)
    IN IF r.ok THEN Returned(JList(r.val)) ELSE r

\* map_handler(val): the default `lambda d: d`, or _kmap_handler.
map_handler(h, val) == IF h = "kmap" THEN kmap_handler(val) ELSE Returned(val)

\* dict.fromkeys(l): the items of l once each, in the order of l.
RECURSIVE fromkeys(_)
fromkeys(l) ==
    IF l = <<>> THEN <<>>
    ELSE LET init == fromkeys(SubSeq(l, 1, Len(l) - 1))
             x == l[Len(l)]
         IN IF \E i \in 1 .. Len(init) : init[i] = x THEN init ELSE Append(init, x)

\* The note of the suggestion of a dict item: arg[1] if arg[1] else self.note.
item_note(val) ==
    CASE val.t = "str" -> IF val.s = "" THEN "None" ELSE val.s
      [] val.t = "null" -> "None"
      [] val.t = "list" -> IF val.l = <<>> THEN "None" ELSE "<list>"
      [] OTHER -> IF val.m = <<>> THEN "None" ELSE "<dict>"

\* The suggestion of one item of the catalogue.
entry_suggestion(sv, note) == NotedSuggestion(sv, sv, note, Rule("str_find", sv))

\* _DynamicIdSuggestion.resolve(id_table) for the path, the wrapped node
\* and the map handler of the suggestion.
resolve(table, path, kind, h) ==
    LET found == walk_path(table, path)
    IN IF ~found.ok
       THEN LET res == orig_suggest(kind)
            IN Returned([i \in 1 .. Len(res) |->
                            [res[i] EXCEPT !.note = "autocomp.dynamic_id.failed"]])
       ELSE LET handled == map_handler(h, found.val)
            IN IF ~handled.ok THEN handled
               ELSE IF handled.val.t \notin {"list", "map"} THEN Raises("AssertionError")
               ELSE IF handled.val.t = "list"
                    THEN LET ks == fromkeys(handled.val.l)
                         IN Returned([i \in 1 .. Len(ks) |-> entry_suggestion(ks[i], "None")])
                    ELSE Returned([i \in 1 .. Len(handled.val.m) |->
                            entry_suggestion(handled.val.m[i][1],
                                             item_note(handled.val.m[i][2]))])

\* The nodes _BlockStatePair wraps in DynamicId, with their map handlers.
DynamicIdUses ==
    {<<"QuotedString", "kmap">>, <<"QuotedString", "identity">>,
     <<"Integer", "identity">>, <<"Boolean", "identity">>}

\* A suggestion with a path into a table is about to be resolved.
DynStart(table, path, kind, h) ==
    [phase |-> "start", table |-> table, path |-> path, kind |-> kind, handler |-> h,
     res |-> Returned(<<>>)]

\* The host resolves the suggestion against the id table.
Resolve ==
    /\ dyn.phase = "start"
    /\ dyn' = [dyn EXCEPT !.phase = "done",
                          !.res = resolve(dyn.table, dyn.path, dyn.kind, dyn.handler)]
    /\ UNCHANGED <<engine_vars, walk, conc, jstr, idt, prev, unit>>

\* ------------------------------------------------------------------------
\* Id tables (spec.md 4.F: IdTable; gen_id_table.py: handle_pack, main)
\* ------------------------------------------------------------------------
\* d[k] = v on a dict: an existing key keeps its place, a new key is appended.
set_item(d, k, v) ==
    IF has_key(d, k)
    THEN JMap([i \in 1 .. Len(d.m) |-> IF d.m[i][1] = k THEN <<k, v>> ELSE d.m[i]])
    ELSE JMap(Append(d.m, <<k, v>>))

\* The entries of b from the i-th on merged into a: two maps under one key
\* are merged key by key, any other value of b replaces the one of a.
RECURSIVE merge(_, _, _)
merge(a, b, i) ==
    IF i > Len(b.m) THEN a
    ELSE LET k == b.m[i][1]
             y == b.m[i][2]
             x == IF has_key(a, k) THEN get(a, k) ELSE JNull
             both == has_key(a, k) /\ x.t = "map" /\ y.t = "map"
         IN merge(set_item(a, k, IF both THEN merge(x, y, 1) ELSE y), b, i + 1)

\* IdTable.merge_from(*others): the tables merged into an empty one, in order.
RECURSIVE merge_from(_)
merge_from(others) ==
    IF others = <<>> THEN JMap(<<>>)
    ELSE merge(merge_from(SubSeq(others, 1, Len(others) - 1)), others[Len(others)], 1)

\* A token of the JSON text of a table.
Tok(k, s) == [k |-> k, s |-> s]

\* IdTable.dump: the JSON text of a table, as its tokens.
RECURSIVE dump(_)
RECURSIVE dump_items(_, _)
dump(val) ==
    CASE val.t = "null" -> <<Tok("null", "")>>
      [] val.t = "str" -> <<Tok("str", val.s)>>
      [] val.t = "map" -> <<Tok("{", "")>> \o dump_items(val.m, 1) \o <<Tok("}", "")>>
dump_items(m, i) ==
    IF i > Len(m) THEN <<>>
    ELSE (IF i > 1 THEN <<Tok(",", "")>> ELSE <<>>)
         \o <<Tok("str", m[i][1]), Tok(":", "")>> \o dump(m[i][2])
         \o dump_items(m, i + 1)

\* IdTable.load: the value read from the tokens at i, and where it ends.
RECURSIVE load_value(_, _)
RECURSIVE load_items(_, _, _)
load_value(toks, i) ==
    CASE toks[i].k = "null" -> [val |-> JNull, i |-> i + 1]
      [] toks[i].k = "str" -> [val |-> JStr(toks[i].s), i |-> i + 1]
      [] toks[i].k = "{" ->
            IF toks[i + 1].k = "}" THEN [val |-> JMap(<<>>), i |-> i + 2]
            ELSE load_items(toks, i + 1, JMap(<<>>))
load_items(toks, i, d) ==
    LET r == load_value(toks, i + 2)
        d2 == set_item(d, toks[i].s, r.val)
    IN IF toks[r.i].k = "," THEN load_items(toks, r.i + 1, d2)
       ELSE [val |-> d2, i |-> r.i + 1]

load(toks) == load_value(toks, 1).val

\* What a handler of an input gives: a table, None, or an OSError.
Handled(t) == [kind |-> "table", table |-> t]
Skipped == [kind |-> "none", table |-> JMap(<<>>)]
RaisedOSError == [kind |-> "oserror", table |-> JMap(<<>>)]

\* The tables a loop over handler results collects: None is skipped, and so
\* is a handler that raised where the loop catches OSError.
RECURSIVE collect(_)
collect(results) ==
    IF results = <<>> THEN <<>>
    ELSE collect(SubSeq(results, 1, Len(results) - 1))
         \o (IF results[Len(results)].kind = "table"
             THEN <<results[Len(results)].table>> ELSE <<>>)

\* The same loop keeping the tables in the opposite order.
handle_pack_reversed(results) ==
    LET ts == collect(results)
    IN merge_from([i \in 1 .. Len(ts) |-> ts[Len(ts) + 1 - i]])

\* handle_pack: the results of the dispatcher's handlers, merged in order.
handle_pack(results) == merge_from(collect(results))

\* The handler results of the inputs of main, where the inputs lo .. hi are
\* the files of one pack given as a single input (lo = 0: no pack).
input_results(results, lo, hi) ==
    IF lo = 0 THEN results
    ELSE SubSeq(results, 1, lo - 1)
         \o <<Handled(handle_pack(SubSeq(results, lo, hi)))>>
         \o SubSeq(results, hi + 1, Len(results))

\* The tables of the model: the ids of the entities, without a label or
\* with one, and the ids of the blocks.
EntityMaps ==
    {JMap(<<>>), JMap(<< <<"a", JNull>> >>), JMap(<< <<"a", JStr("Label")>> >>),
     JMap(<< <<"b", JNull>>, <<"a", JStr("Label")>> >>)}
BlockMaps == {JMap(<< <<"a", JNull>> >>)}

IdTables ==
    {JMap(e \o b) :
        e \in {<<>>} \cup {<< <<"entity", cm>> >> : cm \in EntityMaps},
        b \in {<<>>} \cup {<< <<"block", cm>> >> : cm \in BlockMaps}}

NumInputs == 3

\* The inputs of a run of gen_id_table.
IdtStart(results, lo, hi) ==
    [phase |-> "start", results |-> results, lo |-> lo, hi |-> hi,
     result |-> JMap(<<>>), text |-> <<>>, loaded |-> JMap(<<>>)]

\* main: the handlers run over the inputs, their tables are merged and the
\* result is dumped.
GenIdTable ==
    /\ idt.phase = "start"
    /\ LET result == merge_from(collect(input_results(idt.results, idt.lo, idt.hi)))
       IN idt' = [idt EXCEPT !.phase = "dumped", !.result = result, !.text = dump(result)]
    /\ UNCHANGED <<engine_vars, walk, conc, jstr, dyn, prev, unit>>

\* The host loads the dumped table.
LoadIdTable ==
    /\ idt.phase = "dumped"
    /\ idt' = [idt EXCEPT !.phase = "loaded", !.loaded = load(idt.text)]
    /\ UNCHANGED <<engine_vars, walk, conc, jstr, dyn, prev, unit>>

\* ------------------------------------------------------------------------
\* Handlers of gen_id_table (gen_id_table.py: read_json, handle_biome,
\* handle_rp_block, handle_rpac, handle_rp_anim, handle_ease, main)
\* ------------------------------------------------------------------------
\* An entry of the file system: a file json decodes to a value, a file json
\* cannot decode, or something that is not a file.
JsonFile(val) == [isfile |-> TRUE, bad |-> FALSE, val |-> val]
BadJson == [isfile |-> TRUE, bad |-> TRUE, val |-> JNull]
NotAFile == [isfile |-> FALSE, bad |-> FALSE, val |-> JNull]

\* read_json(path): the decoded value, None on a JSONDecodeError.
read_json(file) == IF file.bad THEN JNull ELSE file.val

\* What a handler gives when an exception other than OSError leaves it.
RaisedError(name) == [kind |-> name, table |-> JMap(<<>>)]

\* dict.fromkeys(ids) of ids that differ from one another.
NullMap(ids) == JMap([i \in 1 .. Len(ids) |-> <<ids[i], JNull>>])

\* IdTable({category: map}).
OneCategory(category, map) == JMap(<< <<category, map>> >>)

\* handle_biome returning a table of no biome where it gives up.
handle_biome_keeps_going(file) ==
    IF ~file.isfile THEN RaisedOSError
    ELSE LET d == read_json(file)
         IN IF d.t = "map" /\ has_key(d, "biomes") /\ get(d, "biomes").t = "map"
            THEN Handled(OneCategory("biome", NullMap(keys(get(d, "biomes")))))
            ELSE Handled(OneCategory("biome", NullMap(<<>>)))

handle_biome(file) ==
    IF ~file.isfile THEN RaisedOSError
    ELSE LET d == read_json(file)
         IN IF d.t = "null" THEN Skipped
            ELSE IF d.t # "map" \/ ~has_key(d, "biomes") \/ get(d, "biomes").t # "map"
            THEN Skipped
            ELSE Handled(OneCategory("biome", NullMap(keys(get(d, "biomes")))))

handle_rp_block(file) ==
    IF ~file.isfile THEN RaisedOSError
    ELSE LET d == read_json(file)
         IN IF d.t = "null" THEN Skipped
            ELSE IF d.t # "map" THEN Skipped
            ELSE Handled(OneCategory("block", NullMap(keys(d))))

\* The ids a handler gathers in a set, and the two orders a set of at most
\* two of them is iterated in.
SetIds == <<"a1", "a2", "c1", "c2", "s1", "s2">>
set_order(S, rev) ==
    LET up == SelectSeq(SetIds, LAMBDA x : x \in S)
    IN IF rev THEN [i \in 1 .. Len(up) |-> up[Len(up) + 1 - i]] ELSE up

\* The names of the sets.
SetNames == {"all_states", "all_acs", "all_anims"}

\* The states of the valid definitions of the controllers of acd from the
\* i-th on.
RECURSIVE rpac_states(_, _)
rpac_states(acd, i) ==
    IF i > Len(acd.m) THEN {}
    ELSE LET def_ == acd.m[i][2]
         IN (IF def_.t # "map" \/ ~has_key(def_, "states") \/ get(def_, "states").t # "map"
             THEN {}
             ELSE {keys(get(def_, "states"))[j] : j \in 1 .. Len(get(def_, "states").m)})
            \cup rpac_states(acd, i + 1)

\* The loop of handle_rpac over the entries of the directory from the i-th
\* on, with the sets gathered so far; returned is FALSE once it has left.
RECURSIVE rpac_loop(_, _, _, _)
rpac_loop(dir, i, all_states, all_acs) ==
    IF i > Len(dir) THEN [returned |-> FALSE, all_states |-> all_states, all_acs |-> all_acs]
    ELSE IF ~dir[i].isfile THEN rpac_loop(dir, i + 1, all_states, all_acs)
    ELSE LET d == read_json(dir[i])
         IN IF d.t = "null"
            THEN [returned |-> TRUE, all_states |-> all_states, all_acs |-> all_acs]
            ELSE IF d.t # "map" \/ ~has_key(d, "animation_controllers")
                    \/ get(d, "animation_controllers").t # "map"
            THEN rpac_loop(dir, i + 1, all_states, all_acs)
            ELSE LET acd == get(d, "animation_controllers")
                 IN rpac_loop(dir, i + 1, all_states \cup rpac_states(acd, 1),
                              all_acs \cup {keys(acd)[j] : j \in 1 .. Len(acd.m)})

handle_rpac(dir, order) ==
    LET r == rpac_loop(dir, 1, {}, {})
    IN IF r.returned THEN Skipped
       ELSE Handled(JMap(<< <<"rpac_state", NullMap(set_order(r.all_states, order["all_states"]))>>,
                            <<"rpac", NullMap(set_order(r.all_acs, order["all_acs"]))>> >>))

\* The loop of handle_rp_anim; raised is TRUE once read_json has raised.
RECURSIVE rp_anim_loop(_, _, _)
rp_anim_loop(dir, i, all_anims) ==
    IF i > Len(dir) THEN [raised |-> FALSE, all_anims |-> all_anims]
    ELSE IF ~dir[i].isfile THEN [raised |-> TRUE, all_anims |-> all_anims]
    ELSE LET d == read_json(dir[i])
         IN IF d.t = "null" THEN rp_anim_loop(dir, i + 1, all_anims)
            ELSE IF d.t # "map" \/ ~has_key(d, "animations") \/ get(d, "animations").t # "map"
            THEN rp_anim_loop(dir, i + 1, all_anims)
            ELSE rp_anim_loop(dir, i + 1,
                    all_anims \cup {keys(get(d, "animations"))[j] :
                                        j \in 1 .. Len(get(d, "animations").m)})

handle_rp_anim(dir, order) ==
    LET r == rp_anim_loop(dir, 1, {})
    IN IF r.raised THEN RaisedOSError
       ELSE Handled(OneCategory("animation_ref",
                                NullMap(set_order(r.all_anims, order["all_anims"]))))

\* The ranges and the functions of handle_ease.
EaseRanges == <<"in", "out", "in_out">>
EaseFuncs == <<"back", "bounce", "circ", "cubic", "elastic", "expo", "quad", "quart", "quint", "sine">>

\* dict.get(key, default).
dict_get(d, key, default) == IF has_key(d, key) THEN get(d, key) ELSE default

\* The texts a string of the model has around a word it holds.
Affixes == {"", "range ", " func", "x"}

\* `w in d` for the string w: a key of a dict, an item of a list, a part of
\* a string.
contains(d, w) ==
    CASE d.t = "map" -> has_key(d, w)
      [] d.t = "list" -> \E i \in 1 .. Len(d.l) : d.l[i] = w
      [] OTHER -> \E a \in Affixes, b \in Affixes : a \o w \o b = d.s

\* The truth value of a tuple: false only when it is empty.
truthy(tuple) == Len(tuple) > 0

\* The pairs of a range and a function, in the order of the two loops.
EasePairs ==
    [i \in 1 .. Len(EaseRanges) * Len(EaseFuncs) |->
        <<EaseRanges[((i - 1) \div Len(EaseFuncs)) + 1], EaseFuncs[((i - 1) % Len(EaseFuncs)) + 1]>>]

\* handle_ease. The test of the two objects is `not (a, b)` on the tuple of
\* the two isinstance() results; d["range"] on a list or a string raises a
\* TypeError, .get on a value that is no dict an AttributeError, and
\* "".join on a value that is no string a TypeError.
handle_ease(file) ==
    IF ~file.isfile THEN RaisedOSError
    ELSE LET d == read_json(file)
         IN IF d.t = "null" THEN Skipped
            ELSE IF ~(contains(d, "range") /\ contains(d, "func")) THEN Skipped
            ELSE IF d.t # "map" THEN RaisedError("TypeError")
            ELSE LET range == get(d, "range")
                     func == get(d, "func")
                     seperator == dict_get(d, "separator", JStr(", "))
                     piece(p) == <<dict_get(range, p[1], JNull), seperator,
                                   dict_get(func, p[2], JNull)>>
                     joined(p) == JStr(piece(p)[1].s \o piece(p)[2].s \o piece(p)[3].s)
                 IN IF ~truthy(<<range.t = "map", func.t = "map">>) THEN Skipped
                    ELSE IF range.t # "map" \/ func.t # "map" THEN RaisedError("AttributeError")
                    ELSE IF \E i \in 1 .. Len(EasePairs) : \E j \in 1 .. 3 :
                                piece(EasePairs[i])[j].t # "str"
                    THEN RaisedError("TypeError")
                    ELSE Handled(OneCategory("ease_type",
                            JMap(<< <<"linear", dict_get(d, "linear", JNull)>>,
                                    <<"spring", dict_get(d, "spring", JNull)>> >>
                                 \o [i \in 1 .. Len(EasePairs) |->
                                        <<EasePairs[i][1] \o "_" \o EasePairs[i][2],
                                          joined(EasePairs[i])>>])))

\* TYPE2FUNC[type_](value) for the types of the model.
TYPE2FUNC(type_, value, order) ==
    CASE type_ = "biome" -> handle_biome(value)
      [] type_ = "rp_block" -> handle_rp_block(value)
      [] type_ = "rp_ac" -> handle_rpac(value, order)
      [] type_ = "rp_anim" -> handle_rp_anim(value, order)
      [] type_ = "ease" -> handle_ease(value)

\* The inputs of a run: each a type and a file or the entries of a directory.
Input(type_, value) == [type |-> type_, value |-> value]
MainStart(inputs) == [phase |-> "start", inputs |-> inputs]

\* main: the handler of each input is run, the tables of those that gave
\* one are merged; an exception that leaves a handler ends the run.
RunMain ==
    /\ unit.phase = "start"
    /\ "inputs" \in DOMAIN unit
    /\ \E order \in [SetNames -> BOOLEAN] :
       LET ran(results) ==
               LET raised == \E i \in 1 .. Len(results) : results[i].kind \notin {"table", "none"}
               IN [phase |-> "done", inputs |-> unit.inputs, results |-> results,
                   raised |-> raised,
                   result |-> IF raised THEN JMap(<<>>) ELSE merge_from(collect(results))]
       IN unit' = ran([i \in 1 .. Len(unit.inputs) |->
                          TYPE2FUNC(unit.inputs[i].type, unit.inputs[i].value, order)])
    /\ UNCHANGED <<engine_vars, walk, conc, jstr, dyn, idt, prev>>

\* The files of the model.
BiomeFiles ==
    {BadJson, JsonFile(JStr("x")), JsonFile(JList(<<"biomes">>)), JsonFile(JMap(<<>>)),
     JsonFile(JMap(<< <<"biomes", JList(<<"a">>)>> >>)),
     JsonFile(JMap(<< <<"biomes", JMap(<<>>)>> >>)),
     JsonFile(JMap(<< <<"biomes", JMap(<< <<"a", JMap(<<>>)>> >>)>> >>)),
     JsonFile(JMap(<< <<"biomes", JMap(<< <<"b", JMap(<<>>)>>, <<"a", JNull>> >>)>>,
                      <<"c", JStr("x")>> >>))}

Controller(name, states) ==
    <<name, JMap(<< <<"states", JMap([i \in 1 .. Len(states) |-> <<states[i], JMap(<<>>)>>])>> >>)>>
RpacFiles ==
    {BadJson, NotAFile, JsonFile(JList(<<"animation_controllers">>)),
     JsonFile(JMap(<< <<"animation_controllers", JStr("x")>> >>)),
     JsonFile(JMap(<< <<"animation_controllers", JMap(<< Controller("c1", <<"s1">>) >>)>> >>)),
     JsonFile(JMap(<< <<"animation_controllers",
                        JMap(<< Controller("c2", <<"s2", "s1">>) >>)>> >>)),
     JsonFile(JMap(<< <<"animation_controllers",
                        JMap(<< <<"c1", JStr("x")>>, Controller("c2", <<"s2">>) >>)>> >>))}
AnimFiles ==
    {BadJson, NotAFile, JsonFile(JMap(<<>>)),
     JsonFile(JMap(<< <<"animations", JMap(<< <<"a1", JMap(<<>>)>> >>)>> >>)),
     JsonFile(JMap(<< <<"animations", JMap(<< <<"a2", JMap(<<>>)>>, <<"a1", JNull>> >>)>> >>))}

FullRange == JMap(<< <<"in", JStr("in")>>, <<"out", JStr("out")>>, <<"in_out", JStr("in-out")>> >>)
FullFunc == JMap([i \in 1 .. Len(EaseFuncs) |-> <<EaseFuncs[i], JStr(EaseFuncs[i])>>])
EaseRangeValues == {FullRange, JMap(SubSeq(FullRange.m, 1, 2)), JStr("x"), JNull}
EaseFuncValues == {FullFunc, JMap(SubSeq(FullFunc.m, 2, Len(FullFunc.m))), JList(<<"back">>)}
EaseFiles ==
    {JsonFile(JMap(r \o f \o s \o l)) :
        r \in {<<>>} \cup {<< <<"range", x>> >> : x \in EaseRangeValues},
        f \in {<<>>} \cup {<< <<"func", x>> >> : x \in EaseFuncValues},
        s \in {<<>>, << <<"separator", JStr("; ")>> >>, << <<"separator", JNull>> >>},
        l \in {<<>>, << <<"linear", JStr("Linear")>> >>}}
    \cup {BadJson, JsonFile(JStr("range func")), JsonFile(JStr("x")),
          JsonFile(JList(<<"range", "func">>)), JsonFile(JList(<<"range">>))}

MaxInputs == 2
MaxDir == 3

\* ------------------------------------------------------------------------
\* Source texts
\* ------------------------------------------------------------------------
MaxTail == 3
MaxRange == 4
MaxPos == 2
MaxQuote == 3

\* All sequences over A of length at most n.
Tails(A, n) == UNION {[1 .. k -> A] : k \in 0 .. n}

DefaultVersion == <<1, 19, 80>>

\* A source text: the line, its line end, and what follows it.
Line(v, s) == [src |-> s \o <<NL>>, version |-> v]

\* help, followed by pages, command names and spaces.
HelpLines ==
    {Line(DefaultVersion, <<"h", "e", "l", "p">> \o t) : t \in Tails({" ", "1", "a"}, MaxTail)}

\* execute if score a b matches <range>, alone, before a subcommand, and
\* with the subcommand not separated from it.
W_matches ==
    <<"e", "x", "e", "c", "u", "t", "e", " ", "i", "f", " ", "s", "c", "o", "r", "e",
      " ", "a", " ", "b", " ", "m", "a", "t", "c", "h", "e", "s", " ">>

W_run_help == <<" ", "r", "u", "n", " ", "h", "e", "l", "p">>

RangeLines ==
    {Line(DefaultVersion, W_matches \o inv \o t \o sfx) :
        inv \in {<<>>, <<"!">>},
        t \in Tails({"1", "."}, MaxRange),
        sfx \in {<<>>, W_run_help, Tail(W_run_help)}}

\* execute positioned <x> <y> ~ run help
W_positioned == <<"e", "x", "e", "c", "u", "t", "e", " ", "p", "o", "s", "i", "t", "i", "o", "n",
      "e", "d", " ">>

PosLines ==
    {Line(DefaultVersion, W_positioned \o x \o <<" ">> \o y \o <<" ", "~">> \o W_run_help) :
        x \in Tails({"~", "1"}, MaxPos), y \in Tails({"~", "1"}, MaxPos)}

\* give <target> <item> <amount> [<data>]
W_give == <<"g", "i", "v", "e", " ", "@", "s", " ", "d", "i", "a", "m", "o", "n", "d", " ">>

Amounts == {<<"0">>, <<"1">>, <<"3", "2", "7", "6", "7">>, <<"3", "2", "7", "6", "8">>}

GiveLines ==
    {Line(DefaultVersion, W_give \o n \o d) :
        n \in Amounts, d \in {<<>>} \cup {<<" ">> \o m : m \in Amounts}}

\* give "<name>" b 1, the name a quoted string over quotes, backslashes,
\* letters and line ends.
QuoteLines ==
    {Line(DefaultVersion, <<"g", "i", "v", "e", " ", DQ>> \o t \o <<" ", "b", " ", "1">>) :
        t \in Tails({DQ, BSL, "a", NL}, MaxQuote)}

\* Block specifications, legacy execute and JSON values, at the versions
\* where the grammar changes.
W_block == <<"e", "x", "e", "c", "u", "t", "e", " ", "i", "f", " ", "b", "l", "o", "c", "k",
      " ", "~", " ", "~", " ", "~", " ">>

BlockLines ==
    {Line(v, W_block \o b \o sfx) :
        v \in {<<1, 19, 70>>, <<1, 19, 80>>},
        b \in {<<"s", "t", "o", "n", "e">>, <<"m", "i", "n", "e", "c", "r", "a", "f", "t", ":", "s", "t", "o", "n", "e">>, <<"s", "t", "o", "n", "e", " ", "1">>, <<"s", "t", "o", "n", "e", "[", DQ, "a", DQ, ":", "1", "]">>},
        sfx \in {<<>>, W_run_help}}

OtherLines ==
    {Line(<<1, 19, 40>>, <<"e", "x", "e", "c", "u", "t", "e", " ", "a", " ", "~", " ", "~", " ", "~", " ",
      "h", "e", "l", "p">>),
     Line(<<1, 19, 40>>, <<"e", "x", "e", "c", "u", "t", "e", " ", "a", " ", "~", " ", "~", " ", "~", " ",
      "d", "e", "t", "e", "c", "t", " ", "~", " ", "~", " ", "~", " ", "s", "t",
      "o", "n", "e", " ", "0", " ", "h", "e", "l", "p">>),
     Line(<<1, 19, 40>>, <<"e", "x", "e", "c", "u", "t", "e", " ", "a", "s", " ", "a", " ", "r", "u", "n",
      " ", "h", "e", "l", "p">>),
     Line(<<1, 19, 50>>, <<"e", "x", "e", "c", "u", "t", "e", " ", "a", "s", " ", "a", " ", "r", "u", "n",
      " ", "h", "e", "l", "p">>),
     Line(<<1, 19, 50>>, <<"e", "x", "e", "c", "u", "t", "e", " ", "a", " ", "~", " ", "~", " ", "~", " ",
      "h", "e", "l", "p">>),
     Line(DefaultVersion, <<"e", "x", "e", "c", "u", "t", "e", " ", "a", "l", "i", "g", "n", " ", "x", "z",
      " ", "a", "n", "c", "h", "o", "r", "e", "d", " ", "e", "y", "e", "s", " ",
      "r", "u", "n", " ", "h", "e", "l", "p">>),
     Line(DefaultVersion, <<"e", "x", "e", "c", "u", "t", "e", " ", "i", "n", " ", "t", "h", "e", "_", "e",
      "n", "d", " ", "r", "u", "n", " ", "h", "e", "l", "p">>),
     Line(DefaultVersion, <<"a", "b", "i", "l", "i", "t", "y", " ", "@", "s", " ", "m", "a", "y", "f", "l",
      "y", " ", "t", "r", "u", "e">>),
     Line(DefaultVersion, <<"a", "b", "i", "l", "i", "t", "y", " ", "a", " ", "m", "u", "t", "e", " ", "x">>),
     Line(DefaultVersion, <<"a", "b", "i", "l", "i", "t", "y", " ", "a">>),
     Line(DefaultVersion, <<"t", "e", "l", "l", "r", "a", "w", " ", "a", " ", "1">>),
     Line(DefaultVersion, <<"t", "e", "l", "l", "r", "a", "w", " ", "a", " ", "t", "r", "u", "e">>),
     Line(DefaultVersion, <<"t", "e", "l", "l", "r", "a", "w", " ", "a", " ", "x">>),
     Line(DefaultVersion, <<"t", "e", "l", "l", "r", "a", "w", " ", "a", " ">> \o <<NL>> \o <<"1">>),
     Line(DefaultVersion, <<"g", "i", "v", "e", " ", "a", " ", "b", " ", "1", " ", "0", " ", "1">>),
     Line(DefaultVersion, <<"?">>),
     Line(DefaultVersion, <<>>)}

\* tellraw a <json>: strings with and without escapes, closed and not, and
\* a number after two spaces.
W_tellraw == <<"t", "e", "l", "l", "r", "a", "w", " ", "a", " ">>

JsonLines ==
    {Line(DefaultVersion, W_tellraw \o t) :
        t \in {<<DQ, "a", DQ>>, <<DQ, DQ>>, <<DQ, "a">>, <<" ", "1">>,
               <<DQ, BSL, "u", "0", "0", "6", "1", " ", BSL, "n", DQ>>,
               <<DQ, "a", DQ, " ", "b">>}}

\* The lines of the benchmark and of the examples of use.
W_score == <<"e", "x", "e", "c", "u", "t", "e", " ", "i", "f", " ", "s", "c", "o", "r", "e",
      " ", "@", "s", " ", "o", "b", "j", " ", "m", "a", "t", "c", "h", "e", "s", " ",
      "1", ".", ".", "5", " ", "r", "u", "n", " ">>

\* bench.py: CMD, up to `tag=` and as a whole.
W_ability_tag ==
    <<"a", "b", "i", "l", "i", "t", "y", " ", "@", "p", "[", "t", "a", "g", "=">>

CMD ==
    W_ability_tag \o
    <<",", "s", "c", "o", "r", "e", "s", "=", "{", "a", "=", ".", ".", "1", "}", "]", " ",
      "m", "a", "y", "f", "l", "y", " ", "t", "r", "u", "e">>

ExampleLines ==
    {Line(DefaultVersion, W_score \o <<"s", "a", "y", " ", "h", "i">>),
     Line(DefaultVersion, W_score \o <<"h", "e", "l", "p">>),
     Line(DefaultVersion, CMD)}

Inputs == HelpLines \cup RangeLines \cup PosLines \cup GiveLines \cup QuoteLines
          \cup BlockLines \cup OtherLines \cup JsonLines \cup ExampleLines

\* The versions at which the grammar of the model changes, and one below
\* them all.
Versions == {<<1, 19, 0>>, <<1, 19, 10>>, <<1, 19, 30>>, <<1, 19, 50>>, <<1, 19, 80>>}

W_locate == <<"l", "o", "c", "a", "t", "e">>

LocateWords == {<<"b", "i", "o", "m", "e">>, <<"s", "t", "r", "u", "c", "t", "u", "r", "e">>,
                <<"t", "r", "u", "e">>, <<"A">>}

RECURSIVE Spaced(_)
Spaced(ws) == IF ws = <<>> THEN <<>> ELSE <<" ">> \o Head(ws) \o Spaced(Tail(ws))

MaxWords == 3

W_execute == <<"e", "x", "e", "c", "u", "t", "e">>

\* Lines in the two forms of execute: a selector, a position and a command,
\* with and without detect, and chains of subcommands up to run; the
\* selector of the first form may be a word that names a subcommand, and
\* its command may be help with a page that no terminator follows.
ExecuteForms ==
    LET here == <<<<"~">>, <<"~">>, <<"~">>>>
        help == <<<<"h", "e", "l", "p">>>>
        run == <<<<"r", "u", "n">>>>
        as == <<<<"a", "s">>>>
        at == <<<<"a", "t">>>>
        positioned == <<<<"p", "o", "s", "i", "t", "i", "o", "n", "e", "d">>>>
        facing == <<<<"f", "a", "c", "i", "n", "g">>>>
        a == <<<<"a">>>>
    IN {sel \o here \o cmd : sel \in {a, as, positioned, facing, run},
                              cmd \in {help, run \o help, help \o <<<<"1", "a">>>>,
                                       <<W_execute>> \o a \o here \o help}}
       \cup {sub \o run \o cmd : sub \in {as \o a, at \o a \o positioned \o here, <<>>},
                                 cmd \in {help, <<W_execute>> \o as \o a \o run \o help,
                                          <<W_execute>> \o a \o here \o help}}

\* locate followed by words, the two forms of execute, and a block with
\* its data value: the lines whose grammar depends on the version.
VersionTexts ==
    {W_locate \o Spaced(ws) \o <<NL>> : ws \in Tails(LocateWords, MaxWords)}
    \cup {i.src : i \in BlockLines \cup OtherLines}
    \cup {W_execute \o Spaced(ws) \o <<NL>> : ws \in ExecuteForms}

\* ------------------------------------------------------------------------
\* Chains of execute subcommands (nodes.py: command(), _execute and
\* _execute_cond)
\* ------------------------------------------------------------------------
MaxChain == 2

\* One subcommand with its arguments, as words.
ExecuteSegments ==
    LET here == <<<<"~">>, <<"~">>, <<"~">>>>
        a == <<<<"a">>>>
        entity == <<<<"e", "n", "t", "i", "t", "y">>>>
        if == <<<<"i", "f">>>>
    IN {<<<<"a", "s">>>> \o a,
        <<<<"a", "l", "i", "g", "n">>, <<"x", "z">>>>,
        <<<<"a", "n", "c", "h", "o", "r", "e", "d">>, <<"e", "y", "e", "s">>>>,
        <<<<"i", "n">>, <<"n", "e", "t", "h", "e", "r">>>>,
        <<<<"p", "o", "s", "i", "t", "i", "o", "n", "e", "d">>>> \o here,
        <<<<"r", "o", "t", "a", "t", "e", "d">>, <<"a", "s">>>> \o a,
        <<<<"f", "a", "c", "i", "n", "g">>>> \o entity \o a \o <<<<"f", "e", "e", "t">>>>,
        if \o entity \o a,
        <<<<"u", "n", "l", "e", "s", "s">>>> \o entity \o a,
        if \o <<<<"s", "c", "o", "r", "e">>>> \o a \o <<<<"o">>>>
           \o <<<<"m", "a", "t", "c", "h", "e", "s">>, <<"1">>>>,
        if \o <<<<"b", "l", "o", "c", "k">>>> \o here \o <<<<"s", "t", "o", "n", "e">>>>}

\* What follows the chain: nothing, run with a command, a command that no
\* run introduces, and run with a second execute.
ExecuteEnds ==
    LET help == <<<<"h", "e", "l", "p">>>>
        run == <<<<"r", "u", "n">>>>
    IN {<<>>, run \o help, help, run \o help \o <<<<"1", "a">>>>,
        run \o <<W_execute, <<"i", "f">>, <<"e", "n", "t", "i", "t", "y">>, <<"a">>>>}

RECURSIVE Chain(_)
Chain(segs) == IF segs = <<>> THEN <<>> ELSE Head(segs) \o Chain(Tail(segs))

ExecuteChains ==
    {W_execute \o Spaced(Chain(segs) \o end) \o <<NL>> :
        segs \in Tails(ExecuteSegments, MaxChain), end \in ExecuteEnds}

\* The same parser parses the line again at version v2: the outcome at the
\* first version and the version predicates of the branches of its
\* accepting path are kept.
Reparse ==
    /\ pc = "done"
    /\ prev.phase = "off"
    /\ \E v2 \in Versions \ {version} : \E g \in {Arena} :
          /\ version' = v2
          /\ prev' = [phase |-> "again", version |-> version, outcome |-> outcome,
                      diags |-> diags,
                      path |-> IF outcome = "accept"
                               THEN {g[stack[i].node].br[stack[i].bi].ver : i \in 1 .. Len(stack)}
                               ELSE {}]
    /\ pos' = 1
    /\ font_marks' = <<>>
    /\ ac_marks' = <<>>
    /\ font_stack' = <<>>
    /\ checkers' = <<>>
    /\ stack' = <<>>
    /\ pc' = "enter"
    /\ cur' = "command_root"
    /\ err' = NoErr
    /\ diags' = <<>>
    /\ outcome' = "none"
    /\ failures' = <<>>
    /\ UNCHANGED <<src, fields, sugg, walk, conc, jstr, dyn, idt, unit>>

\* ------------------------------------------------------------------------
\* The path of a dynamic id suggestion (nodes.py: DynamicId,
\* BlockSpec._tree._get_path, _BlockStatePair._tree._get_vpath)
\* ------------------------------------------------------------------------
\* The BlockSpec instances of the graph g, by the owner of their block id.
BlockSpecs(g) == {g[n].track.owner : n \in {x \in DOMAIN g : g[x].track.cb = "set_block_id"}}

\* _get_path(): ["block_state", self.__block_id], read when it is called.
get_path(spec, flds) == <<"block_state", flds[spec]>>

\* _get_vpath(type_)(): the parent path, the type and self.__key, read when
\* it is called.
get_vpath(pair, spec, type_, flds) == get_path(spec, flds) \o <<type_, flds[pair]>>

\* DynamicId(node, path_getter)._suggest() of the value node of a pair of
\* the BlockSpec spec: the path of the suggestion is path_getter() at the
\* time the suggestions are produced.
DynamicId_suggest(spec, type_, flds) ==
    get_vpath(spec \o ".states.content", spec, type_, flds)

\* The suggestions of the mark of a block-state value are produced after the
\* line was parsed.
SuggestValue ==
    /\ pc = "done"
    /\ outcome = "accept"
    /\ unit.phase = "off"
    /\ \E g \in {Arena} : \E i \in 1 .. Len(ac_marks) : \E spec \in BlockSpecs(g) :
       \E type_ \in {"str", "int", "bool"} :
          /\ ac_marks[i].node = spec \o ".states.content." \o type_
          /\ unit' = [phase |-> "asked", mark |-> i, spec |-> spec, type |-> type_,
                      path |-> DynamicId_suggest(spec, type_, fields)]
    /\ UNCHANGED <<engine_vars, walk, conc, jstr, dyn, idt, prev>>

\* execute if block ~ ~ ~ <id> [<pairs>], alone or with a second condition
\* joined to it or after a space.
MaxPairs == 2
PairTexts ==
    {<<DQ, "a", DQ, ":", "1", " ">>, <<DQ, "b", DQ, ":", DQ, "x", DQ>>,
     <<DQ, "b", DQ, ":", "t", "r", "u", "e", " ">>}
RECURSIVE PairList(_)
PairList(ps) ==
    IF ps = <<>> THEN <<>>
    ELSE Head(ps) \o (IF Len(ps) > 1 THEN <<",">> ELSE <<>>) \o PairList(Tail(ps))
StateLists ==
    {<<"[">> \o PairList(ps) \o <<"]">> : ps \in Tails(PairTexts, MaxPairs) \ {<<>>}}
    \cup {<<"[", DQ, "a", DQ, ":", "1", "]">>}
W_if_block == <<"i", "f", " ", "b", "l", "o", "c", "k", " ", "~", " ", "~", " ", "~", " ">>
SecondBlocks ==
    {<<>>}
    \cup {sp \o W_if_block \o id \o <<" ", "[">> \o p \o <<"]">> :
            sp \in {<<>>, <<" ">>}, id \in BlockIds,
            p \in {<<DQ, "a", DQ, ":", "1", " ">>, <<DQ, "c", DQ, ":", DQ, "x", DQ>>}}
StateLines ==
    {W_block \o id \o <<" ">> \o l \o second \o <<NL>> :
        id \in BlockIds, l \in StateLists, second \in SecondBlocks}

\* ------------------------------------------------------------------------
\* Sub-trees of the grammar parsed on their own (nodes.py: BlockSpec and
\* the commands that build one)
\* ------------------------------------------------------------------------
\* The Series of the grammar, each followed by the line end: the states of
\* a BlockSpec, and the scores, the haspermission, the object of hasitem
\* and the arguments of a selector; and a selector as a whole.
SeriesGraph(name) ==
    (CASE name = "states" ->
            Series_tree("s", "[", "]", ",", BlockStatePair_tree, TRUE, <<Fin("s")>>)
       [] name = "scores" ->
            Series_tree("s", "{", "}", ",", ScoresArg_tree, FALSE, <<Fin("s")>>)
       [] name = "haspermission" ->
            Series_tree("s", "{", "}", ",", HasPermissionArg_tree, FALSE, <<Fin("s")>>)
       [] name = "hasitem" -> hasitem_object("s", <<Fin("s")>>)
       [] name = "args" ->
            Series_tree("s", "[", "]", ",", SelectorArg_tree, FALSE, <<Fin("s")>>)
       [] name = "selector" -> Selector_tree("s", <<Fin("s")>>))
    @@ EOLAt("s.eol")

\* Series.empty_ok of each Series, and of the Series of Json.__object and
\* Json.__array.
empty_ok(name) == name \in {"states", "object", "array"}

\* The characters of a Series and a text that its content accepts, followed
\* by the space that ends the content where the content ends an argument.
SeriesTokens(name) ==
    [B |-> IF name \in {"states", "args", "array"} THEN <<"[">> ELSE <<"{">>,
     E |-> IF name \in {"states", "args", "array"} THEN <<"]">> ELSE <<"}">>,
     S |-> <<",">>,
     C |-> CASE name = "states" -> <<DQ, "a", DQ, ":", DQ, "b", DQ>>
             [] name = "scores" -> <<DQ, "a", DQ, "=", "1", " ">>
             [] name = "haspermission" ->
                   <<"a", " ", "=", "e", "n", "a", "b", "l", "e", "d", " ">>
             [] name = "hasitem" -> <<"i", "t", "e", "m", " ", "=", "a", " ">>
             [] name = "args" -> <<"r", " ", "=", "1", " ">>
             [] name = "object" -> <<DQ, "a", DQ, ":", DQ, "b", DQ, " ">>
             [] name = "array" -> <<DQ, "a", DQ, " ">>]

\* Selectors with an empty list of arguments and with an empty scores,
\* haspermission and hasitem, joined to `@e` and separated from it, and
\* with a score.
SelectorTexts ==
    [joined |-> <<"@", "e", "[", "]">>,
     apart |-> <<"@", "e", " ", "[", "]">>,
     scores |-> <<"@", "e", "[", "s", "c", "o", "r", "e", "s", "=", "{", "}", "]">>,
     scores_apart |-> <<"@", "e", " ", "[", "s", "c", "o", "r", "e", "s", " ", "=", "{", "}", "]">>,
     haspermission_apart |->
        <<"@", "e", " ", "[", "h", "a", "s", "p", "e", "r", "m", "i", "s", "s", "i", "o", "n",
          " ", "=", "{", "}", "]">>,
     hasitem_apart |->
        <<"@", "e", " ", "[", "h", "a", "s", "i", "t", "e", "m", " ", "=", "{", "}", "]">>,
     one_apart |-> <<"@", "e", " ", "[", "r", " ", "=", "1", " ", "]">>]

MaxSeries == 5

\* The texts made of up to MaxSeries of these.
RECURSIVE SeriesText(_, _)
SeriesText(name, toks) ==
    IF toks = <<>> THEN <<>>
    ELSE SeriesTokens(name)[Head(toks)] \o SeriesText(name, Tail(toks))

\* The forms of the Series whose content starts with a word that may hold
\* the characters of the Series.
ShortForms ==
    {<<"B", "E">>, <<"B", "C", "E">>, <<"B", "C", "S", "E">>, <<"B", "C", "S">>, <<"B">>,
     <<"B", "C">>, <<"B", "S", "E">>}

\* The JSON values of the model, one of each type, and their texts.
ValueTypes == {"number", "string", "object", "array", "boolean"}
ValueText(type_) ==
    CASE type_ = "number" -> <<"1">>
      [] type_ = "string" -> <<DQ, "b", DQ>>
      [] type_ = "object" -> <<"{", "}">>
      [] type_ = "array" -> <<"[", "]">>
      [] type_ = "boolean" -> <<"t", "r", "u", "e">>

MaxGap == 2

\* An object or an array of the values vals, the i-th followed by gaps[i]
\* spaces and then by the separator or the closing character.
RECURSIVE ContainerItems(_, _, _, _)
ContainerItems(name, vals, gaps, i) ==
    IF i > Len(vals) THEN <<>>
    ELSE (IF name = "object" THEN <<DQ, "a", DQ, ":">> ELSE <<>>)
         \o ValueText(vals[i]) \o [k \in 1 .. gaps[i] |-> " "]
         \o (IF i < Len(vals) THEN <<",">> ELSE <<>>)
         \o ContainerItems(name, vals, gaps, i + 1)
ContainerText(name, vals, gaps) ==
    (IF name = "object" THEN <<"{">> ELSE <<"[">>)
    \o ContainerItems(name, vals, gaps, 1)
    \o (IF name = "object" THEN <<"}">> ELSE <<"]">>)

\* Names of selector arguments, and what is typed of one: up to MaxPrefix
\* characters.
ArgNames == {"scores", "hasitem", "haspermission", "name", "family", "type", "rm", "rxm"}
MaxPrefix == 2
TypedPrefixes == Tails({"s", "S", "a", "m", "e", "x"}, MaxPrefix)

RankStart(keywords, prefix) == [phase |-> "start", keywords |-> keywords, prefix |-> prefix]

\* The suggestions of two KeywordCaseInsensitive nodes are weighed against
\* the typed prefix, filtered and sorted.
RankKeywords ==
    /\ unit.phase = "start"
    /\ "keywords" \in DOMAIN unit
    /\ \E g \in {KeywordCaseInsensitive("k1", unit.keywords[1], <<>>)
                 @@ KeywordCaseInsensitive("k2", unit.keywords[2], <<>>)} :
       LET ranked(l) ==
               [phase |-> "done", keywords |-> unit.keywords, prefix |-> unit.prefix,
                weights |-> [i \in 1 .. Len(l) |-> match_rule(l[i].rule, unit.prefix)],
                list |-> SortByWeight(DropFailed(l, unit.prefix), unit.prefix)]
       IN unit' = ranked(Suggest(g, "k1") \o Suggest(g, "k2"))
    /\ UNCHANGED <<engine_vars, walk, conc, jstr, dyn, idt, prev>>

\* Json._parse of a Json node on a text, and the line end after it.
JsonStart(name, form, text) ==
    [phase |-> "start", json |-> name, form |-> form, text |-> text]

ParseJson ==
    /\ unit.phase = "start"
    /\ "json" \in DOMAIN unit
    /\ LET parsed(r) ==
               [phase |-> "done", json |-> unit.json, form |-> unit.form, text |-> unit.text,
                ok |-> r.ok /\ EOL_parse(unit.text, r.pos).ok, value |-> r.ok]
       IN unit' = parsed(Json_terminated(Json_parse("json", unit.text, 1), unit.text))
    /\ UNCHANGED <<engine_vars, walk, conc, jstr, dyn, idt, prev>>

\* The trees: the BlockSpec of clone ... filtered (no bs_optional, then the
\* line end), the second BlockSpec of fill ... replace (bs_optional=EOL(),
\* then the line end) and the BlockSpec of execute if block
\* (bs_optional=_execute, then _execute or the line end), in the graph of
\* the commands.
SubGraph(name) ==
    CASE name = "clone" -> BlockSpec_tree("b", <<>>, <<Fin("b")>>) @@ EOLAt("b.eol")
      [] name = "fill" -> BlockSpec_tree("b", <<"b.opt">>, <<Fin("b")>>)
                          @@ EOLAt("b.opt") @@ EOLAt("b.eol")
      [] name = "execute" -> Arena
      [] OTHER -> SeriesGraph(name)

SubRoot(name) ==
    CASE name = "execute" -> "_execute_cond.block.spec"
      [] name \in {"clone", "fill"} -> "b"
      [] OTHER -> "s"

\* What follows a block id: nothing, a data value, a list of states that is
\* empty or has one pair, with and without a space before it.
BlockTails ==
    [none |-> <<>>,
     data |-> <<" ", "1">>,
     empty |-> <<" ", "[", "]">>,
     pair |-> <<" ", "[", DQ, "a", DQ, ":", DQ, "b", DQ, "]">>,
     joined |-> <<"[", "]">>,
     both |-> <<" ", "1", " ", "[", "]">>]

\* What follows the BlockSpec: the line end, or a subcommand of execute.
BlockFollows == [eol |-> <<>>, run |-> <<" ", "r", "u", "n", " ", "h", "e", "l", "p">>]

BlockVersions == {<<1, 19, 50>>, <<1, 19, 70>>, <<1, 19, 75>>, <<1, 19, 80>>, <<1, 20, 0>>}

\* A tree about to parse a text at a version; `form` names what the text is
\* made of.
TreeStart(name, form, text, v) ==
    [phase |-> "start", graph |-> name, form |-> form, text |-> text, version |-> v]

\* tree.parse(marker) on a marker at the start of the text: whether the
\* tree accepted, and the nodes that marked the text, in order.
ParseTree ==
    /\ unit.phase = "start"
    /\ "graph" \in DOMAIN unit
    /\ \E g \in {SubGraph(unit.graph)} :
          LET parsed(r) ==
                  [phase |-> "done", graph |-> unit.graph, form |-> unit.form,
                   text |-> unit.text, version |-> unit.version, ok |-> r.ok,
                   nodes |-> [i \in 1 .. Len(r.m.ac_marks) |-> r.m.ac_marks[i].node]]
          IN unit' = parsed(tree_parse(g, SubRoot(unit.graph), unit.text,
                                       MarkerState(1, <<>>, <<>>, <<>>, <<>>), unit.version))
    /\ UNCHANGED <<engine_vars, walk, conc, jstr, dyn, idt, prev>>

\* Nothing but the line is being parsed.
LabOff ==
    /\ jstr = [phase |-> "off"]
    /\ dyn = [phase |-> "off"]
    /\ idt = [phase |-> "off"]
    /\ prev = [phase |-> "off"]
    /\ unit = [phase |-> "off"]

Init ==
    /\ fields = [o \in Owners(Arena) |-> "None"]
    /\ \E i \in Inputs : src = i.src /\ version = i.version
    /\ pos = 1
    /\ font_marks = <<>>
    /\ ac_marks = <<>>
    /\ font_stack = <<>>
    /\ checkers = <<>>
    /\ stack = <<>>
    /\ pc = "enter"
    /\ cur = "command_root"
    /\ err = NoErr
    /\ diags = <<>>
    /\ outcome = "none"
    /\ failures = <<>>
    /\ sugg = NoSugg
    /\ walk = NoWalk
    /\ conc = NoConc
    /\ LabOff

Next ==
    \/ EnterNode
    \/ Descend
    \/ TerminatorMissing
    \/ BranchFail
    \/ AllFailed
    \/ Accept
    \/ SuggestionsAt

Spec == Init /\ [][Next]_vars

\* The engine is off while the graph is walked or the threads run.
EngineOff ==
    /\ src = <<>>
    /\ version = DefaultVersion
    /\ pos = 1
    /\ font_marks = <<>>
    /\ ac_marks = <<>>
    /\ font_stack = <<>>
    /\ checkers = <<>>
    /\ stack = <<>>
    /\ pc = "off"
    /\ cur = ""
    /\ err = NoErr
    /\ diags = <<>>
    /\ outcome = "none"
    /\ fields = [o \in Owners(Arena) |-> "None"]
    /\ failures = <<>>
    /\ sugg = NoSugg

InitWalk ==
    /\ EngineOff
    /\ walk = [node |-> "command_root", since |-> {"command_root"}, looped |-> FALSE]
    /\ conc = NoConc
    /\ LabOff

NextWalk ==
    \/ WalkZero
    \/ WalkConsume

SpecWalk == InitWalk /\ [][NextWalk]_vars

InitConc ==
    /\ EngineOff
    /\ walk = NoWalk
    /\ \E jobs \in [Threads -> Jobs] : conc = ConcStart(jobs)
    /\ LabOff

NextConc ==
    \E t \in Threads :
        \/ JsonSetMarker(t)
        \/ JsonSetReader(t)
        \/ JsonSetName(t)
        \/ JsonSkipSpaces(t)
        \/ JsonPeek(t)
        \/ JsonParseNode(t)
        \/ BlockSetId(t)
        \/ BlockGetPath(t)

SpecConc == InitConc /\ [][NextConc]_vars

\* ------------------------------------------------------------------------
InitVersions ==
    /\ fields = [o \in Owners(Arena) |-> "None"]
    /\ src \in VersionTexts
    /\ version \in Versions
    /\ pos = 1
    /\ font_marks = <<>>
    /\ ac_marks = <<>>
    /\ font_stack = <<>>
    /\ checkers = <<>>
    /\ stack = <<>>
    /\ pc = "enter"
    /\ cur = "command_root"
    /\ err = NoErr
    /\ diags = <<>>
    /\ outcome = "none"
    /\ failures = <<>>
    /\ sugg = NoSugg
    /\ walk = NoWalk
    /\ conc = NoConc
    /\ LabOff

NextVersions ==
    \/ EnterNode
    \/ Descend
    \/ TerminatorMissing
    \/ BranchFail
    \/ AllFailed
    \/ Accept
    \/ Reparse

SpecVersions == InitVersions /\ [][NextVersions]_vars

\* ------------------------------------------------------------------------

\* The lines of execute in the subcommand form, at the versions that select
\* it.
InitExecute ==
    /\ fields = [o \in Owners(Arena) |-> "None"]
    /\ src \in ExecuteChains
    /\ version \in {<<1, 19, 50>>, <<1, 19, 80>>}
    /\ pos = 1
    /\ font_marks = <<>>
    /\ ac_marks = <<>>
    /\ font_stack = <<>>
    /\ checkers = <<>>
    /\ stack = <<>>
    /\ pc = "enter"
    /\ cur = "command_root"
    /\ err = NoErr
    /\ diags = <<>>
    /\ outcome = "none"
    /\ failures = <<>>
    /\ sugg = NoSugg
    /\ walk = NoWalk
    /\ conc = NoConc
    /\ LabOff

NextExecute ==
    \/ EnterNode
    \/ Descend
    \/ TerminatorMissing
    \/ BranchFail
    \/ AllFailed
    \/ Accept

SpecExecute == InitExecute /\ [][NextExecute]_vars

\* ------------------------------------------------------------------------
InitBlockSpec ==
    /\ EngineOff
    /\ walk = NoWalk
    /\ conc = NoConc
    /\ jstr = [phase |-> "off"]
    /\ dyn = [phase |-> "off"]
    /\ idt = [phase |-> "off"]
    /\ prev = [phase |-> "off"]
    /\ \E name \in {"clone", "fill", "execute"} : \E id \in BlockIds :
       \E tail \in DOMAIN BlockTails : \E follow \in DOMAIN BlockFollows :
       \E v \in BlockVersions :
          unit = TreeStart(name, <<tail, follow>>,
                           id \o BlockTails[tail] \o BlockFollows[follow] \o <<NL>>, v)

NextBlockSpec == ParseTree

SpecBlockSpec == InitBlockSpec /\ [][NextBlockSpec]_vars

\* ------------------------------------------------------------------------
InitSeries ==
    /\ EngineOff
    /\ walk = NoWalk
    /\ conc = NoConc
    /\ jstr = [phase |-> "off"]
    /\ dyn = [phase |-> "off"]
    /\ idt = [phase |-> "off"]
    /\ prev = [phase |-> "off"]
    /\ \/ \E name \in {"states", "hasitem"} :
          \E toks \in Tails({"B", "C", "S", "E"}, MaxSeries) :
          \E v \in {<<1, 19, 70>>, <<1, 19, 80>>} :
             unit = TreeStart(name, toks, SeriesText(name, toks) \o <<NL>>, v)
       \/ \E name \in {"scores", "haspermission", "args"} :
          \E toks \in ShortForms :
          \E v \in {<<1, 19, 70>>, <<1, 19, 80>>} :
             unit = TreeStart(name, toks, SeriesText(name, toks) \o <<NL>>, v)
       \/ \E name \in {"object", "array"} :
          \E toks \in Tails({"B", "C", "S", "E"}, MaxSeries - 1) :
             unit = JsonStart(name, <<"B">> \o toks,
                              SeriesText(name, <<"B">> \o toks) \o <<NL>>)
       \/ \E form \in DOMAIN SelectorTexts : \E v \in {<<1, 19, 70>>, <<1, 19, 80>>} :
             unit = TreeStart("selector", form, SelectorTexts[form] \o <<NL>>, v)

NextSeries == ParseTree \/ ParseJson

SpecSeries == InitSeries /\ [][NextSeries]_vars

\* ------------------------------------------------------------------------
InitJsonValues ==
    /\ EngineOff
    /\ walk = NoWalk
    /\ conc = NoConc
    /\ jstr = [phase |-> "off"]
    /\ dyn = [phase |-> "off"]
    /\ idt = [phase |-> "off"]
    /\ prev = [phase |-> "off"]
    /\ \E name \in {"object", "array"} : \E n \in 1 .. 2 :
       \E vals \in [1 .. n -> ValueTypes] : \E gaps \in [1 .. n -> 0 .. MaxGap] :
          unit = JsonStart(name, [vals |-> vals, gaps |-> gaps],
                           ContainerText(name, vals, gaps) \o <<NL>>)

NextJsonValues == ParseJson

SpecJsonValues == InitJsonValues /\ [][NextJsonValues]_vars

\* ------------------------------------------------------------------------
InitRank ==
    /\ EngineOff
    /\ walk = NoWalk
    /\ conc = NoConc
    /\ jstr = [phase |-> "off"]
    /\ dyn = [phase |-> "off"]
    /\ idt = [phase |-> "off"]
    /\ prev = [phase |-> "off"]
    /\ \E k1 \in ArgNames : \E k2 \in ArgNames \ {k1} : \E prefix \in TypedPrefixes :
          unit = RankStart(<<k1, k2>>, prefix)

NextRank == RankKeywords

SpecRank == InitRank /\ [][NextRank]_vars

\* ------------------------------------------------------------------------
InitStates ==
    /\ fields = [o \in Owners(Arena) |-> "None"]
    /\ src \in StateLines
    /\ version = DefaultVersion
    /\ pos = 1
    /\ font_marks = <<>>
    /\ ac_marks = <<>>
    /\ font_stack = <<>>
    /\ checkers = <<>>
    /\ stack = <<>>
    /\ pc = "enter"
    /\ cur = "command_root"
    /\ err = NoErr
    /\ diags = <<>>
    /\ outcome = "none"
    /\ failures = <<>>
    /\ sugg = NoSugg
    /\ walk = NoWalk
    /\ conc = NoConc
    /\ LabOff

NextStates ==
    \/ EnterNode
    \/ Descend
    \/ TerminatorMissing
    \/ BranchFail
    \/ AllFailed
    \/ Accept
    \/ SuggestValue

SpecStates == InitStates /\ [][NextStates]_vars

InitJsonString ==
    /\ EngineOff
    /\ walk = NoWalk
    /\ conc = NoConc
    /\ dyn = [phase |-> "off"]
    /\ idt = [phase |-> "off"]
    /\ prev = [phase |-> "off"]
    /\ unit = [phase |-> "off"]
    /\ \E lead \in {0, 2} : \E us \in Tails(Pieces, MaxPieces) :
       \E closed \in (IF Len(us) <= 1 THEN BOOLEAN ELSE {TRUE}) :
       \E lib \in Libs : jstr = JsonStringStart(lead, us, closed, lib, DefaultVersion)

NextJsonString == JsonStringParse

SpecJsonString == InitJsonString /\ [][NextJsonString]_vars

\* ------------------------------------------------------------------------
InitResolve ==
    /\ EngineOff
    /\ walk = NoWalk
    /\ conc = NoConc
    /\ jstr = [phase |-> "off"]
    /\ idt = [phase |-> "off"]
    /\ prev = [phase |-> "off"]
    /\ unit = [phase |-> "off"]
    /\ \E table \in Tables : \E path \in Paths :
       \E use \in DynamicIdUses : dyn = DynStart(table, path, use[1], use[2])

NextResolve == Resolve

SpecResolve == InitResolve /\ [][NextResolve]_vars

\* ------------------------------------------------------------------------
InitIdTable ==
    /\ EngineOff
    /\ walk = NoWalk
    /\ conc = NoConc
    /\ jstr = [phase |-> "off"]
    /\ dyn = [phase |-> "off"]
    /\ prev = [phase |-> "off"]
    /\ unit = [phase |-> "off"]
    /\ \E lo \in 0 .. NumInputs - 1 :
       \E hi \in (IF lo = 0 THEN {0} ELSE lo + 1 .. NumInputs) :
       \E results \in [1 .. NumInputs ->
                         {Handled(t) : t \in IdTables} \cup {Skipped, RaisedOSError}] :
          /\ \A i \in 1 .. NumInputs :
                results[i] = RaisedOSError => lo # 0 /\ i \in lo .. hi
          /\ idt = IdtStart(results, lo, hi)

NextIdTable == GenIdTable \/ LoadIdTable

SpecIdTable == InitIdTable /\ [][NextIdTable]_vars

\* ------------------------------------------------------------------------
InitMain ==
    /\ EngineOff
    /\ walk = NoWalk
    /\ conc = NoConc
    /\ jstr = [phase |-> "off"]
    /\ dyn = [phase |-> "off"]
    /\ idt = [phase |-> "off"]
    /\ prev = [phase |-> "off"]
    /\ \/ \E n \in 1 .. MaxInputs :
          \E inputs \in [1 .. n -> {Input(type_, file) : type_ \in {"biome", "rp_block"},
                                                       file \in BiomeFiles}] :
             unit = MainStart(inputs)
       \/ \E n \in 0 .. MaxDir : \E type_ \in {"rp_ac", "rp_anim"} :
          \E dir \in [1 .. n -> IF type_ = "rp_ac" THEN RpacFiles ELSE AnimFiles] :
             unit = MainStart(<<Input(type_, dir)>>)
       \/ \E file \in EaseFiles : unit = MainStart(<<Input("ease", file)>>)

NextMain == RunMain

SpecMain == InitMain /\ [][NextMain]_vars


\* ------------------------------------------------------------------------
\* Properties of the parse engine
\* ------------------------------------------------------------------------
\* Whether branch i of node n is enabled at the version of the parse, by the
\* comparison its filter names.
BranchEnabled(n, i) ==
    LET f == Arena[n].br[i].ver
    IN CASE f.op = "le" -> f.v = version \/ VersionLess(version, f.v)
         [] f.op = "ge" -> f.v = version \/ VersionLess(f.v, version)
         [] f.op = "lt" -> VersionLess(version, f.v)
         [] OTHER -> TRUE

AllBranches(n) == 1 .. Len(Arena[n].br)

Ascending(q) == \A i \in 1 .. Len(q) - 1 : q[i] < q[i + 1]

Range(q) == {q[i] : i \in 1 .. Len(q)}

\* Frame k holds, in declared order, exactly the enabled branches tried so
\* far that failed; the branch in progress is enabled and comes after them.
FrameInOrder(k) ==
    LET f == stack[k]
        tried == IF k = Len(stack) /\ pc = "branch" THEN f.bi ELSE f.bi - 1
    IN /\ Ascending(f.failed)
       /\ Range(f.failed) = {i \in 1 .. tried : BranchEnabled(f.node, i)}
       /\ (f.bi # 0 => f.bi \in AllBranches(f.node) /\ BranchEnabled(f.node, f.bi))

\* One step of the engine at the branch points: a frame moves to a later
\* branch only when the one before has failed, and to the first enabled one
\* after it; a node fails only when each of its enabled branches has failed;
\* after the line is accepted no branch point moves.
BranchStep ==
    /\ \A k \in 1 .. Len(stack) : k <= Len(stack') =>
          /\ stack'[k].node = stack[k].node
          /\ stack'[k].bi >= stack[k].bi
          /\ (stack'[k].bi > stack[k].bi =>
                /\ stack[k].bi # 0 => stack[k].bi \in Range(stack[k].failed)
                /\ \A i \in (stack[k].bi + 1) .. (stack'[k].bi - 1) :
                      ~BranchEnabled(stack[k].node, i))
    /\ (Len(stack') < Len(stack) =>
          /\ Len(stack') = Len(stack) - 1
          /\ \A i \in AllBranches(Top.node) :
                BranchEnabled(Top.node, i) => i \in Range(Top.failed))
    /\ (pc \in {"accepted", "done"} => stack' = stack)

\* C1: at every branch point the engine tries the version-enabled branches
\* in declared order: a later sibling is tried only after the earlier one
\* has failed, and no sibling is tried once the line is accepted.
C1_BranchOrder ==
    /\ [](\A k \in 1 .. Len(stack) : FrameInOrder(k))
    /\ [][BranchStep]_vars

\* An accepted line on whose path a branch point skipped a disabled branch,
\* saw an enabled branch fail and went on to a later sibling.
C1_Witness ==
    /\ outcome = "accept"
    /\ \E k \in 1 .. Len(stack) :
          /\ Len(stack[k].failed) >= 1
          /\ stack[k].bi > Len(stack[k].failed) + 1

\* C2: when a branch attempt fails, the Marker the engine goes on with is
\* the Marker as it was when the snapshot of the attempt was taken: reader
\* position, font marks, autocompletion marks, font stack and checkers.
C2_RollbackPurity ==
    [][/\ (pc = "fail" /\ pc' = "branch" => Marker' = Top.pre)
       /\ (pc = "branch" /\ pc' = "branch" => Marker' = Marker)]_vars

\* A quoted string failed with an unclosed string after it had appended
\* font marks, and the engine is back at the branch point without them.
C2_Witness ==
    /\ pc = "branch"
    /\ failures # <<>>
    /\ failures[Len(failures)].key = "error.syntax.unclosed_str"
    /\ failures[Len(failures)].marks > Len(font_marks)

\* The first of the failures of the line that reached the largest position.
Deepest ==
    CHOOSE i \in 1 .. Len(failures) :
        /\ \A j \in 1 .. Len(failures) : failures[j].e <= failures[i].e
        /\ \A j \in 1 .. i - 1 : failures[j].e < failures[i].e

\* C3: a rejected line has exactly one diagnostic: the failure that reached
\* the largest reader position, the earliest such failure in branch order.
C3_DeepestWins ==
    outcome = "reject" =>
        /\ Len(diags) = 1
        /\ failures # <<>>
        /\ diags[1].key = failures[Deepest].key
        /\ diags[1].b = failures[Deepest].b
        /\ diags[1].e = failures[Deepest].e

\* A rejected line on which two failures with different messages reached
\* the largest position.
C3_Witness ==
    /\ outcome = "reject"
    /\ \E j \in 1 .. Len(failures) :
          /\ j > Deepest
          /\ failures[j].e = failures[Deepest].e
          /\ failures[j].key # failures[Deepest].key

\* The node classes that end no argument: those the terminator rule names,
\* and Empty, which parses nothing.
NoArgumentEnd == {"Char", "Chars", "QuotedString", "IntegerNoEnd", "Empty"}

\* Whether the terminator rule asks for a terminator between node n and its
\* branch j.
TerminatorRequired(n, j) ==
    \/ Arena[n].kind \notin NoArgumentEnd /\ ~Arena[n].br[j].close
    \/ Arena[n].br[j].rae

\* A step from a branch point: a descent consumes one space or stands before
\* a line end when a terminator is required, and consumes nothing when none
\* is; a branch is refused for its terminator only when one is required and
\* the next character is neither a space nor a line end.
TerminatorStep ==
    LET n == Top.node
        j == stack'[Len(stack)].bi
        c == peek(src, pos)
    IN /\ (pc = "branch" /\ pc' = "enter" =>
             /\ cur' = Arena[n].br[j].to
             /\ IF TerminatorRequired(n, j)
                THEN \/ c = " " /\ pos' = pos + 1
                     \/ c \in {NL, CR, EOF} /\ pos' = pos
                ELSE pos' = pos)
       /\ (pc = "branch" /\ pc' = "branch" =>
             /\ TerminatorRequired(n, j)
             /\ c \notin {" ", NL, CR, EOF})

\* C4: after a node that ends an argument the engine descends into a branch
\* that is not is_close only over a single space, which it consumes, or
\* before a line end, which it leaves; after Char, Chars, QuotedString and
\* IntegerNoEnd it asks for no terminator, except on a require_arg_end
\* branch.
C4_TerminatorRule == [][TerminatorStep]_vars

\* The engine has taken the require_arg_end branch of a Char node over a
\* space: a bare `~`.
C4_Witness ==
    /\ pc = "enter"
    /\ stack # <<>>
    /\ Arena[Top.node].kind = "Char"
    /\ Arena[Top.node].br[Top.bi].rae
    /\ pos = Top.pre.pos + 1

C6_Independent ==
    \A t \in Threads :
        conc.tpc[t] = "done" =>
            [pos |-> conc.pos[t], marks |-> conc.marks[t], out |-> conc.out[t]]
                = Alone(conc.job[t])

\* C7: no step of a parse or of a suggestion lookup changes an attribute of
\* a node of the graph or a variable its closures hold.
C7_GraphFrozen == [][fields' = fields]_vars

\* The position of the line end that ends the first line of the source.
LineEnd ==
    CHOOSE i \in 1 .. Len(src) : src[i] = NL /\ \A j \in 1 .. i - 1 : src[j] # NL

\* C8: the reader never passes the line end of the line being parsed.
C8_WithinLine == pos <= LineEnd + 1

SemanticKeys == {"error.semantic.number.out_of_range", "error.semantic.number.cant_be",
                 "error.semantic.number.must_be"}

\* The message of the violation of scheduled checker c, "" when its value
\* is allowed; a range includes both of its bounds.
Violation(c) ==
    CASE c.chk.op = "ranged" ->
            IF (~c.chk.nolo /\ c.val < c.chk.lo) \/ (~c.chk.nohi /\ c.val > c.chk.hi)
            THEN "error.semantic.number.out_of_range" ELSE ""
      [] c.chk.op = "none_of" ->
            IF \E x \in c.chk.nums : x = c.val THEN "error.semantic.number.cant_be" ELSE ""
      [] c.chk.op = "one_of" ->
            IF \A x \in c.chk.nums : x # c.val THEN "error.semantic.number.must_be" ELSE ""
      [] OTHER -> ""

RECURSIVE ExpectedDiags(_)
ExpectedDiags(cks) ==
    IF cks = <<>> THEN <<>>
    ELSE (IF Violation(Head(cks)) = "" THEN <<>>
          ELSE <<[key |-> Violation(Head(cks)), b |-> Head(cks).b, e |-> Head(cks).e,
                  kw |-> Head(cks).chk]>>)
         \o ExpectedDiags(Tail(cks))

\* give @s diamond 32768
Give32768 == W_give \o <<"3", "2", "7", "6", "8", NL>>

\* C9: a checker violation fails no branch: no failure of the line carries a
\* semantic message and no diagnostic exists before the line is done; an
\* accepted line has exactly the violations of the values on the accepted
\* path, each of which has its font mark; every give line with a numeric
\* amount is accepted, and `give @s diamond 32768` has the one diagnostic
\* out_of_range with min 1 and max 32767 over the span of 32768.
C9_DeferredCheckers ==
    /\ (pc # "done" => diags = <<>>)
    /\ \A i \in 1 .. Len(failures) : failures[i].key \notin SemanticKeys
    /\ (outcome = "reject" => \A i \in 1 .. Len(diags) : diags[i].key \notin SemanticKeys)
    /\ (outcome = "accept" =>
          /\ diags = ExpectedDiags(checkers)
          /\ \A i \in 1 .. Len(checkers) : \E m \in 1 .. Len(font_marks) :
                font_marks[m].b = checkers[i].b /\ font_marks[m].e = checkers[i].e)
    /\ (pc = "done" /\ (\E l \in GiveLines : l.src = src) => outcome = "accept")
    /\ (pc = "done" /\ src = Give32768 =>
          /\ Len(diags) = 1
          /\ diags[1].key = "error.semantic.number.out_of_range"
          /\ diags[1].b = 17 /\ diags[1].e = 22
          /\ ~diags[1].kw.nolo /\ diags[1].kw.lo = 1
          /\ ~diags[1].kw.nohi /\ diags[1].kw.hi = 32767
          /\ \E m \in 1 .. Len(font_marks) : font_marks[m] = FontMark(17, 22, "numeric"))

\* `give @s diamond 32768` has been parsed and has its diagnostic.
C9_Witness ==
    /\ pc = "done"
    /\ src = Give32768
    /\ diags # <<>>

\* The weight of entry i of the last answer, on the text between the begin
\* of the mark and the column asked for.
AnswerWeight(i) == match_rule(sugg.list[i].rule, SubSeq(src, sugg.begin, sugg.c - 1))

\* C10: no suggestion of an answer of suggestions_at fails its match rule on
\* the text between the mark's begin and the column, and the answer is in
\* ascending order of weight.
C10_SuggestionClosure ==
    sugg # NoSugg =>
        /\ \A i \in 1 .. Len(sugg.list) : AnswerWeight(i) # RULEW_FAILED
        /\ \A i \in 1 .. Len(sugg.list) : \A j \in i .. Len(sugg.list) :
              AnswerWeight(i) <= AnswerWeight(j)

\* An answer on a typed prefix from which a suggestion of the node was
\* dropped, and whose suggestions have different weights.
C10_Witness ==
    /\ sugg # NoSugg
    /\ sugg.c > sugg.begin
    /\ Len(sugg.list) >= 2
    /\ Len(sugg.list) < Len(Suggest(Arena, sugg.node))
    /\ AnswerWeight(1) < AnswerWeight(Len(sugg.list))

\* ------------------------------------------------------------------------
\* Properties of the suggestion production
\* ------------------------------------------------------------------------
\* The text typed between the begin of the answer's mark and the column.
AnswerPrefix == SubSeq(src, sugg.begin, sugg.c - 1)

\* The targets of the version-enabled branches of node n.
EnabledTargets(n) == {Arena[n].br[i].to : i \in {j \in AllBranches(n) : BranchEnabled(n, j)}}

\* The targets from which the production goes on: those of the enabled
\* branches marked is_close, and the join points, which stand for no token.
FollowedTargets(n) ==
    {Arena[n].br[i].to : i \in {j \in AllBranches(n) :
        /\ BranchEnabled(n, j)
        /\ Arena[n].br[j].close \/ Arena[Arena[n].br[j].to].kind = "Empty"}}

\* The nodes whose branches the production looks at, k steps from node n.
RECURSIVE FollowedAt(_, _)
FollowedAt(n, k) ==
    IF k = 0 THEN {n} ELSE UNION {FollowedTargets(m) : m \in FollowedAt(n, k - 1)}

\* The nodes that come after node n: the targets of the branches looked at.
ComesAfter(n) ==
    UNION {EnabledTargets(m) : m \in UNION {FollowedAt(n, k) : k \in 0 .. MaxSuggestDepth}}

SuggestionsOf(n) == Range(Suggest(Arena, n))

CatalogueEntries(val) ==
    CASE val.t = "map" -> Len(val.m)
      [] val.t = "list" -> Cardinality(Range(val.l))
      [] OTHER -> 0

\* C12: resolving a dynamic id suggestion never fails: when the path is
\* absent from the table or runs through a value that is not a map, the
\* result is the suggestions of the wrapped node with the note
\* autocomp.dynamic_id.failed; otherwise it is one suggestion per catalogue
\* entry found at the path, also when the value found is a leaf.
C12_ResolveTotal ==
    dyn.phase = "done" =>
        LET found == walk_path(dyn.table, dyn.path)
            orig == orig_suggest(dyn.kind)
        IN /\ dyn.res.ok
           /\ ~found.ok =>
                 /\ Len(dyn.res.val) = Len(orig)
                 /\ \A i \in 1 .. Len(orig) :
                       dyn.res.val[i] = [orig[i] EXCEPT !.note = "autocomp.dynamic_id.failed"]
           /\ (found.ok /\ dyn.handler = "identity") =>
                 Len(dyn.res.val) = CatalogueEntries(found.val)

\* ------------------------------------------------------------------------
\* Properties of the JSON strings
\* ------------------------------------------------------------------------
\* The characters a piece stands for.
PieceDecoded(u) ==
    CASE u = "nl" -> <<NL>>
      [] u = "dq" -> <<DQ>>
      [] u = "ua" -> <<"a">>
      [] u = "badu" -> <<>>
      [] OTHER -> PieceSource(u)

RECURSIVE Decoded(_)
Decoded(us) == IF us = <<>> THEN <<>> ELSE PieceDecoded(Head(us)) \o Decoded(Tail(us))

\* The string of the state was read to its closing quote.
StringRead ==
    /\ jstr.phase = "done"
    /\ jstr.closed
    /\ "badu" \notin Range(jstr.pieces)

\* The inner grammar rejects the text the string stands for.
InnerRejects ==
    /\ jstr.lib # "None"
    /\ subparse(jstr.lib, Decoded(jstr.pieces), jstr.ver).failed

RECURSIVE SourceStart(_, _)
SourceStart(us, i) ==
    IF us = <<>> THEN 0
    ELSE IF i < Len(PieceDecoded(Head(us))) THEN i
         ELSE Len(PieceSource(Head(us)))
              + SourceStart(Tail(us), i - Len(PieceDecoded(Head(us))))

\* The inner grammar accepts the text the string stands for.
InnerAccepts ==
    /\ jstr.lib # "None"
    /\ ~subparse(jstr.lib, Decoded(jstr.pieces), jstr.ver).failed

\* C14: after a successful sub-parse every mark of the sub-marker with
\* inner span [i, j) is appended with the outer span from the first source
\* character of decoded character i to the first source character of
\* decoded character j, the closing quote when j is the decoded length.
C14_MarksTranslated ==
    (StringRead /\ InnerAccepts) =>
        LET sub == subparse(jstr.lib, Decoded(jstr.pieces), jstr.ver)
            p1 == jstr.lead + 2
            at(x) == p1 + SourceStart(jstr.pieces, x - 1)
        IN /\ jstr.res.ok
           /\ SubSeq(jstr.res.fm, 3, Len(jstr.res.fm)) =
                 [x \in 1 .. Len(sub.font_marks) |->
                     FontMark(at(sub.font_marks[x].b), at(sub.font_marks[x].e),
                              sub.font_marks[x].font)]
           /\ SubSeq(jstr.res.am, 2, Len(jstr.res.am)) =
                 [x \in 1 .. Len(sub.ac_marks) |->
                     AutoCompletingMark(at(sub.ac_marks[x].b), at(sub.ac_marks[x].e),
                                        sub.ac_marks[x].node)]

\* ------------------------------------------------------------------------
\* Properties of the marks of a line
\* ------------------------------------------------------------------------
\* The characters of the line that the accepted parse read.
AcceptedPrefix == 1 .. (IF pos - 1 < LineEnd THEN pos - 1 ELSE LineEnd)

\* An autocompletion mark covers column c: its span, both ends included.
Covers(m, c) == m.b <= c /\ c <= m.e

\* C15: after parse_line every font mark lies within the line, its line
\* end included, and every column of the accepted prefix is covered by an
\* autocompletion mark, the columns of the body of a string included.
C15_MarkCoverage ==
    (pc = "done" /\ outcome = "accept") =>
        /\ \A x \in 1 .. Len(font_marks) :
              /\ 1 <= font_marks[x].b
              /\ font_marks[x].b <= font_marks[x].e
              /\ font_marks[x].e <= LineEnd + 1
        /\ \A c \in AcceptedPrefix : \E x \in 1 .. Len(ac_marks) : Covers(ac_marks[x], c)

\* ------------------------------------------------------------------------
\* Properties of the versions
\* ------------------------------------------------------------------------
\* Whether the version predicate f holds at version v, by the comparison
\* of tuples its name stands for.
Holds(f, v) ==
    LET less(a, b) == \E i \in 1 .. 3 : a[i] < b[i] /\ \A j \in 1 .. (i - 1) : a[j] = b[j]
    IN CASE f.op = "le" -> less(v, f.v) \/ v = f.v
         [] f.op = "ge" -> less(f.v, v) \/ v = f.v
         [] f.op = "lt" -> less(v, f.v)
         [] f.op = "any" -> TRUE

\* The line was parsed at one version and then at another.
ParsedAgain == pc = "done" /\ prev.phase = "again"

\* C16: a line accepted at a version is accepted at every version at which
\* every version predicate of the branches of the accepting path holds,
\* whichever other branches that version enables or disables.
C16_VersionMonotone ==
    (ParsedAgain /\ prev.outcome = "accept" /\ \A f \in prev.path : Holds(f, version))
        => outcome = "accept"

\* The line is accepted again, through a branch that the first version
\* did not enable.
C16_Witness ==
    /\ ParsedAgain
    /\ prev.outcome = "accept"
    /\ \A f \in prev.path : Holds(f, version)
    /\ outcome = "accept"
    /\ \E i \in 1 .. Len(stack) :
          ~Holds(Arena[stack[i].node].br[stack[i].bi].ver, prev.version)

\* ------------------------------------------------------------------------
\* Properties of the id tables
\* ------------------------------------------------------------------------
\* The categories of a table, its (category, id) pairs and the label of one.
Categories(t) == {t.m[j][1] : j \in 1 .. Len(t.m)}
Pairs(t) ==
    UNION {{<<t.m[j][1], t.m[j][2].m[n][1]>> : n \in 1 .. Len(t.m[j][2].m)} :
              j \in 1 .. Len(t.m)}
Label(t, p) == get(get(t, p[1]), p[2])

\* Two tables with the same categories, the same pairs and the same labels.
Equivalent(t, u) ==
    /\ Categories(t) = Categories(u)
    /\ Pairs(t) = Pairs(u)
    /\ \A p \in Pairs(t) : Label(t, p) = Label(u, p)

\* The table the handlers' tables make when each pair has the label of the
\* last table that defines it, however the inputs are grouped into packs.
LastWriter(t, given) ==
    /\ Categories(t) = UNION {Categories(given[n]) : n \in 1 .. Len(given)}
    /\ Pairs(t) = UNION {Pairs(given[n]) : n \in 1 .. Len(given)}
    /\ \A p \in Pairs(t) :
          \E n \in 1 .. Len(given) :
             /\ p \in Pairs(given[n])
             /\ \A n2 \in n + 1 .. Len(given) : p \notin Pairs(given[n2])
             /\ Label(t, p) = Label(given[n], p)

\* C17: the merged table of a run gives every (category, id) pair of the
\* handlers' tables the label of the last table defining it, whether the
\* tables were merged one by one or some of them first as a pack (so the
\* merge does not depend on the grouping), and the table loaded from the
\* dumped text has the pairs and labels of the dumped table.
C17_RoundTripAndMerge ==
    /\ idt.phase \in {"dumped", "loaded"} =>
          LastWriter(idt.result, collect(idt.results))
    /\ idt.phase = "loaded" => Equivalent(idt.loaded, idt.result)

\* A pack of two tables that give one id different labels, a handler of
\* the pack that raised, and the merged table loaded back with its pairs.
C17_Witness ==
    /\ idt.phase = "loaded"
    /\ idt.lo # 0
    /\ \E i \in idt.lo .. idt.hi : idt.results[i] = RaisedOSError
    /\ \E i, j \in idt.lo .. idt.hi :
          /\ i < j
          /\ idt.results[i].kind = "table" /\ idt.results[j].kind = "table"
          /\ \E p \in Pairs(idt.results[i].table) \cap Pairs(idt.results[j].table) :
                Label(idt.results[i].table, p) # Label(idt.results[j].table, p)
    /\ Cardinality(Pairs(idt.loaded)) >= 2

\* ------------------------------------------------------------------------
\* Properties of the example lines
\* ------------------------------------------------------------------------
\* The line `execute if score @s obj matches 1..5 run say hi`.
SayLine == W_score \o <<"s", "a", "y", " ", "h", "i", NL>>

\* The font mark of a kind over the positions b up to e.
HasFont(b, e, font) ==
    \E i \in 1 .. Len(font_marks) :
        font_marks[i].b = b /\ font_marks[i].e = e /\ font_marks[i].font = font

\* C18: at the default version the line
\* `execute if score @s obj matches 1..5 run say hi` is accepted with no
\* diagnostic, `1..5` is read as an int range (two numeric marks), `run`
\* has the keyword font and `say hi` is parsed from the root alternation up
\* to the end of the line.
C18_ExecuteRunSay ==
    (pc = "done" /\ src = SayLine /\ version = DefaultVersion) =>
        /\ outcome = "accept"
        /\ diags = <<>>
        /\ HasFont(33, 34, "numeric") /\ HasFont(36, 37, "numeric")
        /\ HasFont(38, 41, "keyword")
        /\ pos >= Len(SayLine)

\* Whether the last answer of suggestions_at has the suggestion of a name
\* that writes a text.
Suggests(name, writes) ==
    \E i \in 1 .. Len(sugg.list) :
        sugg.list[i].name = name /\ sugg.list[i].writes = writes

\* C19: at the default version the line
\* `ability @p[tag=,scores={a=..1}] mayfly true` is accepted, and an answer
\* of suggestions_at for the column right after `tag=` has the
\* quoted-string suggestion and the `]` that closes the selector, and has
\* no suggestion of the separator `,`.
C19_TagSuggestions ==
    (pc = "done" /\ src = CMD \o <<NL>> /\ version = DefaultVersion) =>
        /\ outcome = "accept"
        /\ sugg.c = Len(W_ability_tag) + 1 =>
              /\ \E w \in {"string", DQ} : Suggests("autocomp.quoted_string", w)
              /\ Suggests("autocomp.char", "]")
              /\ ~Suggests("autocomp.char", ",")

\* ------------------------------------------------------------------------
\* Properties of the forms of execute
\* ------------------------------------------------------------------------
\* The version from which the subcommand form of execute is selected.
NewExecute == version_ge(<<1, 19, 50>>)
OldExecute == version_lt(<<1, 19, 50>>)

\* The branches of the execute command that the engine tries at the version
\* of the parse.
EnabledForms ==
    {i \in 1 .. Len(Arena["execute"].br) :
        VersionFilter(Arena["execute"].br[i].ver, version)}

\* C20: at every version exactly one of the two branches of execute is
\* enabled, the subcommand form from 1.19.50 on and the legacy form (a
\* selector, a position, detect or a command) below it; and a line accepted
\* through one of the forms is rejected when it is parsed at a version that
\* selects the other form.
C20_ExecuteForms ==
    /\ Arena["execute"].br[1].to = "_execute"
    /\ Arena["execute"].br[2].to = "execute.sel"
    /\ EnabledForms = IF Holds(NewExecute, version) THEN {1} ELSE {2}
    /\ (ParsedAgain /\ prev.outcome = "accept"
           /\ \E f \in prev.path \cap {NewExecute, OldExecute} : ~Holds(f, version))
          => outcome = "reject"

\* A line in the legacy form whose selector is the word `as`, accepted
\* below 1.19.50 and rejected at a version that selects the subcommand form.
C20_Witness ==
    /\ ParsedAgain
    /\ prev.outcome = "accept"
    /\ OldExecute \in prev.path
    /\ SubSeq(src, 1, 10) = W_execute \o <<" ", "a", "s">>
    /\ Holds(NewExecute, version)
    /\ outcome = "reject"

\* ------------------------------------------------------------------------
\* Properties of the chains of execute subcommands
\* ------------------------------------------------------------------------
\* The keywords that _execute branches to.
Subcommands ==
    {"align", "anchored", "as", "at", "facing", "in", "positioned", "rotated",
     "if", "unless", "run"}

\* The line ends that follow a condition of if or unless.
CondEnds ==
    {"_execute_cond.block.eol", "_execute_cond.blocks.eol", "_execute_cond.entity.eol",
     "_execute_cond.score.range.eol", "_execute_cond.score.b.eol"}

\* The first choice point (_execute or the root alternation) of the
\* accepting path after its i-th node, 0 when there is none.
NextChoice(i) ==
    LET js == {j \in i + 1 .. Len(stack) : stack[j].node \in {"_execute", "command_root"}}
    IN IF js = {} THEN 0 ELSE CHOOSE j \in js : \A k \in js : j <= k

\* The accepted lines of execute in the subcommand form.
AcceptedChain ==
    /\ pc = "done"
    /\ outcome = "accept"
    /\ Len(stack) >= 3
    /\ stack[2].node = "execute"
    /\ stack[3].node = "_execute"

\* The lines that end after a subcommand that is neither run nor a
\* condition.
EndsAfterOther ==
    {W_execute \o Spaced(Chain(segs)) \o <<NL>> :
        segs \in {s \in Tails(ExecuteSegments, MaxChain) :
                     /\ s # <<>>
                     /\ s[Len(s)][1] \notin {<<"i", "f">>, <<"u", "n", "l", "e", "s", "s">>}}}

\* C21: from 1.19.50 on, on the path of an accepted execute line every
\* subcommand keyword is chosen at _execute; after run the path is at the
\* root alternation, and after every other subcommand the next choice point
\* is _execute, or there is none and the line ends after a condition of if
\* or unless. The path has a run or ends at the line end of a condition,
\* and a line that ends after another subcommand is rejected.
C21_ExecuteChain ==
    /\ AcceptedChain =>
          /\ \A i \in 1 .. Len(stack) : \A w \in Subcommands :
                stack[i].node = "_execute." \o w =>
                   /\ stack[i - 1].node = "_execute"
                   /\ IF w = "run"
                      THEN i < Len(stack) /\ stack[i + 1].node = "command_root"
                      ELSE IF NextChoice(i) = 0
                           THEN w \in {"if", "unless"} /\ cur \in CondEnds
                           ELSE stack[NextChoice(i)].node = "_execute"
          /\ \/ \E i \in 1 .. Len(stack) : stack[i].node = "_execute.run"
             \/ cur \in CondEnds
    /\ (pc = "done" /\ src \in EndsAfterOther) => outcome = "reject"

\* A chain of two subcommands that ends with a condition is accepted, and
\* so is one whose run is followed by a second execute.
C21_Witness ==
    /\ AcceptedChain
    /\ cur \in CondEnds
    /\ \E i \in 1 .. Len(stack) : stack[i].node = "_execute.as"

C21_WitnessRejected ==
    /\ pc = "done"
    /\ src \in EndsAfterOther
    /\ outcome = "reject"

\* ------------------------------------------------------------------------
\* Properties of BlockSpec
\* ------------------------------------------------------------------------
\* A tree has parsed its text, and what it found.
TreeDone == unit.phase = "done" /\ "graph" \in DOMAIN unit
Marked(suffix) == SubRoot(unit.graph) \o suffix \in Range(unit.nodes)
HasData == Marked(".data")
HasStates == Marked(".states.begin")

\* The node bs_optional of the BlockSpec accepted what follows the id.
FollowedByOptional ==
    \/ unit.graph = "fill" /\ Range(unit.nodes) = {"b.id", "b.opt"}
    \/ unit.graph = "execute" /\ ~Marked(".end") /\ "_execute.run" \in Range(unit.nodes)

\* C22: a BlockSpec accepts a data value only up to 1.19.70, and up to
\* 1.19.70 it accepts one wherever the BlockSpec is; an id with neither
\* data nor a list of states is accepted from 1.19.80 on by every BlockSpec
\* and below 1.19.80 only through the node bs_optional of the BlockSpec; so
\* between 1.19.70 and 1.19.80 a BlockSpec without bs_optional accepts only
\* texts with the list.
C22_BlockSpec ==
    TreeDone =>
       /\ (unit.ok /\ HasData) => Holds(version_le(<<1, 19, 70>>), unit.version)
       /\ (unit.form = <<"data", "eol">> /\ Holds(version_le(<<1, 19, 70>>), unit.version))
             => unit.ok /\ HasData
       /\ (unit.ok /\ ~HasData /\ ~HasStates) =>
             \/ Holds(version_ge(<<1, 19, 80>>), unit.version)
             \/ FollowedByOptional
       /\ (unit.form = <<"none", "eol">> /\ Holds(version_ge(<<1, 19, 80>>), unit.version))
             => unit.ok /\ ~HasData /\ ~HasStates
       /\ (unit.form = <<"none", "eol">> /\ Holds(version_lt(<<1, 19, 80>>), unit.version))
             => (unit.ok <=> unit.graph = "fill")
       /\ (unit.ok /\ unit.graph = "clone" /\ ~Holds(version_le(<<1, 19, 70>>), unit.version)
              /\ Holds(version_lt(<<1, 19, 80>>), unit.version)) => HasStates

\* At 1.19.75 the BlockSpec of clone accepts an id with a list of states.
C22_Witness ==
    /\ TreeDone
    /\ unit.graph = "clone"
    /\ unit.version = <<1, 19, 75>>
    /\ unit.ok
    /\ HasStates

\* Below 1.19.80 the BlockSpec of execute accepts a bare id before run.
C22_WitnessOptional ==
    /\ TreeDone
    /\ unit.ok /\ ~HasData /\ ~HasStates
    /\ Holds(version_lt(<<1, 19, 80>>), unit.version)
    /\ FollowedByOptional
    /\ unit.graph = "execute"

\* ------------------------------------------------------------------------
\* Properties of Series
\* ------------------------------------------------------------------------
\* begin content (separator content)* end
WellFormed(toks) ==
    /\ Len(toks) >= 3
    /\ Len(toks) % 2 = 1
    /\ toks[1] = "B"
    /\ toks[Len(toks)] = "E"
    /\ \A i \in 2 .. Len(toks) - 1 : toks[i] = (IF i % 2 = 0 THEN "C" ELSE "S")

\* A Series has parsed a text made of its characters and contents, and the
\* Series it is.
SeriesDone ==
    /\ unit.phase = "done"
    /\ \/ "json" \in DOMAIN unit
       \/ "graph" \in DOMAIN unit /\ unit.graph # "selector"
SeriesName == IF "json" \in DOMAIN unit THEN unit.json ELSE unit.graph

\* A selector text has been parsed.
SelectorDone == unit.phase = "done" /\ "graph" \in DOMAIN unit /\ unit.graph = "selector"

\* The Series accepts begin content (separator content)* end, and
\* begin end exactly when empty_ok is true.
SeriesGrammar ==
    SeriesDone =>
       (unit.ok <=> \/ WellFormed(unit.form)
                    \/ unit.form = <<"B", "E">> /\ empty_ok(SeriesName))

\* C23: a Series accepts exactly begin content (separator content)* end,
\* and begin end when and only when empty_ok is true; so an empty scores,
\* haspermission, object of hasitem and list of selector arguments are
\* rejected at every version, as Series and in a selector, and an empty
\* list of block states and an empty JSON object and array are accepted.
C23_Series ==
    /\ SeriesGrammar
    /\ (SeriesDone /\ unit.form = <<"B", "E">>) =>
          (unit.ok <=> SeriesName \in {"states", "object", "array"})
    /\ (SelectorDone /\ unit.form # "one_apart") => ~unit.ok

\* The selector `@e[]` is accepted, as a name.
C23_Accepted ==
    /\ SelectorDone
    /\ unit.form = "joined"
    /\ unit.ok
    /\ unit.nodes = <<"s.name.word", "s.eol">>

\* ------------------------------------------------------------------------
\* The run of main over its inputs has ended.
MainDone == unit.phase = "done" /\ "inputs" \in DOMAIN unit

\* The input of a biome or client-block handler that is invalid: a JSON
\* error, a top level that is no object, for biomes no object under `biomes`.
InvalidInput(input) ==
    \/ input.value.bad
    \/ input.value.val.t # "map"
    \/ /\ input.type = "biome"
       /\ \/ ~has_key(input.value.val, "biomes")
          \/ get(input.value.val, "biomes").t # "map"

\* The category a handler fills and the ids a valid input gives it.
InputCategory(input) == IF input.type = "biome" THEN "biome" ELSE "block"
InputIds(input) ==
    LET ids == IF input.type = "biome" THEN get(input.value.val, "biomes") ELSE input.value.val
    IN {ids.m[i][1] : i \in 1 .. Len(ids.m)}

\* The ids of a category of a table.
TableIds(table, category) ==
    IF has_key(table, category)
    THEN {get(table, category).m[i][1] : i \in 1 .. Len(get(table, category).m)}
    ELSE {}

BiomeRun == MainDone /\ \A i \in 1 .. Len(unit.inputs) : unit.inputs[i].type \in {"biome", "rp_block"}

\* C24: handle_biome and handle_rp_block return no table exactly when their
\* input is invalid (a JSON error, a top level that is no object, for biomes
\* a missing or non-object `biomes`), and the merged result holds the ids of
\* the valid inputs and nothing else: a category is in it only when a valid
\* input fills it.
C24_NoTableFromInvalid ==
    BiomeRun =>
        /\ ~unit.raised
        /\ \A i \in 1 .. Len(unit.inputs) :
              unit.results[i].kind = (IF InvalidInput(unit.inputs[i]) THEN "none" ELSE "table")
        /\ \A category \in {"biome", "block"} :
              LET valid == {i \in 1 .. Len(unit.inputs) :
                               ~InvalidInput(unit.inputs[i])
                               /\ InputCategory(unit.inputs[i]) = category}
              IN /\ has_key(unit.result, category) <=> valid # {}
                 /\ TableIds(unit.result, category) = UNION {InputIds(unit.inputs[i]) : i \in valid}
        /\ \A i \in 1 .. Len(unit.result.m) : unit.result.m[i][1] \in {"biome", "block"}

\* An invalid biome file next to a valid blocks.json: only the blocks are in
\* the result.
C24_Witness ==
    /\ BiomeRun
    /\ Len(unit.inputs) = 2
    /\ unit.inputs[1].type = "biome"
    /\ unit.inputs[1].value = JsonFile(JMap(<< <<"biomes", JList(<<"a">>)>> >>))
    /\ unit.inputs[2].type = "rp_block"
    /\ ~InvalidInput(unit.inputs[2])
    /\ unit.results[1] = Skipped
    /\ ~has_key(unit.result, "biome")
    /\ TableIds(unit.result, "block") = {"biomes"}

\* ------------------------------------------------------------------------
\* The run of handle_rpac over one directory.
RpacRun == MainDone /\ Len(unit.inputs) = 1 /\ unit.inputs[1].type = "rp_ac"

\* A file of the directory with valid animation controllers.
ValidRpac(file) ==
    /\ file.isfile
    /\ ~file.bad
    /\ file.val.t = "map"
    /\ has_key(file.val, "animation_controllers")
    /\ get(file.val, "animation_controllers").t = "map"

\* The controller names of a valid file, and the states of those of its
\* controllers that have an object of states.
FileControllers(file) ==
    LET acd == get(file.val, "animation_controllers")
    IN {acd.m[i][1] : i \in 1 .. Len(acd.m)}
FileStates(file) ==
    LET acd == get(file.val, "animation_controllers")
        good == {i \in 1 .. Len(acd.m) :
                    /\ acd.m[i][2].t = "map"
                    /\ has_key(acd.m[i][2], "states")
                    /\ get(acd.m[i][2], "states").t = "map"}
    IN UNION {{get(acd.m[i][2], "states").m[j][1] : j \in 1 .. Len(get(acd.m[i][2], "states").m)} :
                 i \in good}

\* C29: a JSON error or an invalid definition in one file of the directory
\* skips only that file: handle_rpac returns a table, and the states and the
\* controller names of every valid file of the directory are in it.
C29_RpacSkipsOneFile ==
    RpacRun =>
        \A i \in 1 .. Len(unit.inputs[1].value) :
              ValidRpac(unit.inputs[1].value[i]) =>
                 /\ unit.results[1].kind = "table"
                 /\ FileControllers(unit.inputs[1].value[i]) \subseteq TableIds(unit.result, "rpac")
                 /\ FileStates(unit.inputs[1].value[i]) \subseteq TableIds(unit.result, "rpac_state")

\* The same, for the directories without a JSON error.
RpacNoJsonError ==
    RpacRun /\ (\A i \in 1 .. Len(unit.inputs[1].value) : ~unit.inputs[1].value[i].bad)
        => C29_RpacSkipsOneFile

\* With a JSON error in a file of the directory handle_rpac gives no table.
RpacJsonErrorNoTable ==
    RpacRun /\ (\E i \in 1 .. Len(unit.inputs[1].value) : unit.inputs[1].value[i].bad)
        => unit.results[1] = Skipped

\* handle_rp_anim skips the file with the JSON error and keeps the others.
RpAnimSkipsOneFile ==
    /\ MainDone
    /\ unit.inputs[1].type = "rp_anim"
    /\ \A i \in 1 .. Len(unit.inputs[1].value) : unit.inputs[1].value[i].isfile
    => /\ unit.results[1].kind = "table"
       /\ \A i \in 1 .. Len(unit.inputs[1].value) :
             LET file == unit.inputs[1].value[i]
             IN ~file.bad /\ file.val.t = "map" /\ has_key(file.val, "animations")
                /\ get(file.val, "animations").t = "map"
                => \A j \in 1 .. Len(get(file.val, "animations").m) :
                      get(file.val, "animations").m[j][1] \in TableIds(unit.result, "animation_ref")

\* ------------------------------------------------------------------------
\* The run of handle_ease over one file that json decodes.
EaseRun ==
    /\ MainDone
    /\ Len(unit.inputs) = 1
    /\ unit.inputs[1].type = "ease"
    /\ ~unit.inputs[1].value.bad

\* The easing definition lacks `range` or `func`, or one of them is no object.
EaseIncomplete(d) ==
    \/ d.t # "map"
    \/ ~has_key(d, "range")
    \/ ~has_key(d, "func")
    \/ get(d, "range").t # "map"
    \/ get(d, "func").t # "map"

\* The names of the entries of an ease_type table.
EaseNames ==
    {"linear", "spring"}
    \cup {EaseRanges[i] \o "_" \o EaseFuncs[j] : i \in 1 .. Len(EaseRanges), j \in 1 .. Len(EaseFuncs)}

\* C30: handle_ease returns no table, without raising, whenever the easing
\* definition lacks `range` or `func` or one of them is no object; otherwise
\* it returns a table whose ease_type has linear, spring and one entry
\* <range>_<func> for each of the three ranges and ten functions.
C30_Ease ==
    EaseRun =>
        IF EaseIncomplete(unit.inputs[1].value.val)
        THEN unit.results[1] = Skipped
        ELSE /\ unit.results[1].kind = "table"
             /\ TableIds(unit.result, "ease_type") = EaseNames

\* The part of it that holds: without `range` or without `func` there is no
\* table and no exception, and a definition with the two objects, every
\* range and function a string in them and a separator that is a string (or
\* none) gives the 32 entries.
EaseMissingOrFull ==
    EaseRun =>
        LET d == unit.inputs[1].value.val
        IN /\ d.t = "map" /\ (~has_key(d, "range") \/ ~has_key(d, "func"))
              => unit.results[1] = Skipped
           /\ /\ ~EaseIncomplete(d)
              /\ get(d, "range") = FullRange
              /\ get(d, "func") = FullFunc
              /\ dict_get(d, "separator", JStr(", ")).t = "str"
              => /\ unit.results[1].kind = "table"
                 /\ TableIds(unit.result, "ease_type") = EaseNames
                 /\ get(get(unit.result, "ease_type"), "in_out_sine")
                       = JStr("in-out" \o dict_get(d, "separator", JStr(", ")).s \o "sine")

\* `range` is a string: the handler raises.
EaseRangeNoObject ==
    /\ EaseRun
    /\ unit.inputs[1].value.val.t = "map"
    /\ dict_get(unit.inputs[1].value.val, "range", JNull) = JStr("x")
    /\ dict_get(unit.inputs[1].value.val, "func", JNull) = FullFunc
    /\ unit.results[1] = RaisedError("AttributeError")
    /\ unit.raised

\* ------------------------------------------------------------------------
\* execute if score a b matches 1..run help: the subcommand follows the
\* open-ended range with no space.
RangeRunLine == W_matches \o <<"1", ".", ".">> \o Tail(W_run_help) \o <<NL>>

\* The autocompletion marks of an open-ended range N.. and of a quoted
\* string that is an argument of its own, in the accepted line.
EndsOpenRange(i) ==
    /\ ac_marks[i].node = "_execute_cond.score.range.node.dots"
    /\ (i = Len(ac_marks) \/ ac_marks[i + 1].node # "_execute_cond.score.range.node.max")
IsQuoted(i) == ac_marks[i].node \in {n \in DOMAIN Arena : Arena[n].kind = "QuotedString"}

\* C25: in every accepted line an open-ended int range and a quoted string
\* are followed by a space or the line end, so `execute if score a b matches
\* 1..run help` is rejected.
C25_Separated ==
    /\ (pc = "done" /\ outcome = "accept") =>
          \A i \in 1 .. Len(ac_marks) :
              EndsOpenRange(i) \/ IsQuoted(i) => src[ac_marks[i].e] \in {" ", NL}
    /\ (pc = "done" /\ src = RangeRunLine) => outcome = "reject"

\* The line with the subcommand joined to the open-ended range is accepted:
\* the range is read as `1..` and `run` follows with no space.
RangeRunAccepted ==
    /\ pc = "done"
    /\ src = RangeRunLine
    /\ outcome = "accept"
    /\ diags = <<>>
    /\ \E i \in 1 .. Len(ac_marks) : EndsOpenRange(i) /\ src[ac_marks[i].e] = "r"

\* A quoted string with the next argument joined to it, in an accepted line.
QuotedJoinedAccepted ==
    /\ pc = "done"
    /\ outcome = "accept"
    /\ \E i \in 1 .. Len(ac_marks) : IsQuoted(i) /\ src[ac_marks[i].e] = "a"

\* Where the terminator is asked for it is there: in every accepted line a
\* number that ends a range (`1`, `..1`, `1..1`) is followed by a space or
\* the line end.
ClosedRangeSeparated ==
    (pc = "done" /\ outcome = "accept") =>
        \A i \in 1 .. Len(ac_marks) :
            /\ ac_marks[i].node \in {"_execute_cond.score.range.node.max",
                                     "_execute_cond.score.range.node.max2",
                                     "_execute_cond.score.range.node.int"}
            /\ (i = Len(ac_marks) \/ ac_marks[i + 1].node # "_execute_cond.score.range.node.dots")
            => src[ac_marks[i].e - 1] \in {" ", NL} \/ src[ac_marks[i].e] \in {" ", NL}

\* ------------------------------------------------------------------------
\* Json._parse has been applied to an object or an array of values.
JsonValuesDone == unit.phase = "done" /\ "json" \in DOMAIN unit /\ "vals" \in DOMAIN unit.form

\* C26: inside an object or an array a value of every type is accepted when
\* it is immediately followed by `,`, `}` or `]`, with no whitespace.
C26_JsonValues ==
    JsonValuesDone /\ (\A i \in 1 .. Len(unit.form.gaps) : unit.form.gaps[i] = 0)
        => unit.value

\* The spaces that have to follow a value inside an object or an array: one
\* for the terminator after the Json node, and one more for the terminator
\* after a number or a boolean inside it.
GapNeeded(type_) == IF type_ \in {"number", "boolean"} THEN 2 ELSE 1

\* What holds instead: the container is accepted exactly when every value in
\* it is followed by the spaces it needs.
JsonGaps ==
    JsonValuesDone =>
        (unit.value <=> \A i \in 1 .. Len(unit.form.vals) :
                            unit.form.gaps[i] = GapNeeded(unit.form.vals[i]))

\* `[1,true]` is rejected.
JsonJoinedRejected ==
    /\ JsonValuesDone
    /\ unit.text = <<"[", "1", ",", "t", "r", "u", "e", "]", NL>>
    /\ ~unit.value

\* `{"a":"b" ,"a":1  }` is accepted.
JsonSpacedAccepted ==
    /\ JsonValuesDone
    /\ unit.text = <<"{", DQ, "a", DQ, ":", DQ, "b", DQ, " ", ",", DQ, "a", DQ, ":", "1", " ", " ", "}", NL>>
    /\ unit.value
    /\ unit.ok

\* ------------------------------------------------------------------------
\* Two selector argument names have been weighed against a typed prefix.
RankDone == unit.phase = "done" /\ "keywords" \in DOMAIN unit

\* The offsets at which the lower-cased prefix occurs in the i-th keyword.
OccursAt(i) ==
    LET word == Spell(unit.keywords[i])
        typed == lower(unit.prefix)
    IN {f \in 0 .. Len(word) - Len(typed) : SubSeq(word, f + 1, f + Len(typed)) = typed}
FirstAt(i) == CHOOSE f \in OccursAt(i) : \A h \in OccursAt(i) : f <= h

\* The place of the i-th keyword in the sorted answer, 0 if it is not in it.
PlaceOf(i) ==
    LET at == {j \in 1 .. Len(unit.list) : unit.list[j].writes = unit.keywords[i]}
    IN IF at = {} THEN 0 ELSE CHOOSE j \in at : TRUE

\* The rule fails exactly when the lower-cased prefix is not in the keyword.
FailsIffAbsent ==
    RankDone =>
        \A i \in 1 .. 2 :
            /\ unit.weights[i] = RULEW_FAILED <=> OccursAt(i) = {}
            /\ PlaceOf(i) = 0 <=> OccursAt(i) = {}

\* C28: the rule of a selector argument name returns FAILED exactly when
\* the lower-cased typed prefix does not occur in the keyword, and of two
\* matching keywords the one in which the prefix occurs earlier gets a weight
\* no higher than the other, so it is not sorted after it.
C28_EarlierRanksNoWorse ==
    /\ FailsIffAbsent
    /\ RankDone /\ OccursAt(1) # {} /\ OccursAt(2) # {} /\ FirstAt(1) < FirstAt(2)
          => /\ unit.weights[1] <= unit.weights[2]
             /\ PlaceOf(1) < PlaceOf(2)

\* What the weights are: the band less the offset, so the keyword in which
\* the prefix occurs earlier has the higher weight and is sorted last.
EarlierRanksWorse ==
    RankDone /\ OccursAt(1) # {} /\ OccursAt(2) # {}
        => /\ unit.weights[1] = RULEW_STR_FIND - FirstAt(1)
           /\ unit.weights[2] = RULEW_STR_FIND - FirstAt(2)
           /\ FirstAt(1) < FirstAt(2) => PlaceOf(1) > PlaceOf(2)

\* `S` typed: hasitem, where it occurs at offset 2, is sorted before scores,
\* where it occurs at offset 0.
ScoresAfterHasitem ==
    /\ RankDone
    /\ unit.keywords = <<"scores", "hasitem">>
    /\ unit.prefix = <<"S">>
    /\ unit.weights = <<RULEW_STR_FIND, RULEW_STR_FIND - 2>>
    /\ unit.list[1].writes = "hasitem"
    /\ unit.list[2].writes = "scores"

\* ------------------------------------------------------------------------
\* Properties of the path of a dynamic id suggestion
\* ------------------------------------------------------------------------
\* The suggestions of the value of a pair were asked for.
ValueAsked == unit.phase = "asked"

\* The marks of the nodes named n before mark i, and the last one among the
\* marks js.
MarksBefore(n, i) == {j \in 1 .. i - 1 : ac_marks[j].node = n}
LastOf(js) == CHOOSE j \in js : \A k \in js : k <= j

\* The key and the block id that were parsed for the pair of the value at
\* mark i: the quoted key before its colon, and the id of its BlockSpec.
KeyOfPair(i) ==
    LET m == ac_marks[LastOf(MarksBefore(unit.spec \o ".states.content.key", i))]
    IN Join(SubSeq(src, m.b + 1, m.e - 2))
IdOfPair(i) ==
    LET m == ac_marks[LastOf(MarksBefore(unit.spec \o ".id", i))]
    IN set_block_id(SubSeq(src, m.b, m.e - 1))

\* The last key and the last block id of the line.
LastKey == KeyOfPair(Len(ac_marks) + 1)
LastId == IdOfPair(Len(ac_marks) + 1)

\* C27: the suggestions at the value of a block-state pair are resolved
\* with the path of the block id and the key that were parsed for that pair,
\* whatever pairs and BlockSpecs the line has after it.
C27_PathOfSamePair ==
    ValueAsked =>
        unit.path = <<"block_state", IdOfPair(unit.mark), unit.type, KeyOfPair(unit.mark)>>

\* What the path is: the block id and the key the line parsed last.
PathOfLastParsed ==
    ValueAsked => unit.path = <<"block_state", LastId, unit.type, LastKey>>

\* The value of the first pair of `minecraft:dirt ["a":1 ,"b":"x"]` followed
\* by `if block ~ ~ ~ stone ["c":"x"]`: its suggestions are looked up under
\* stone and the key c.
PathOfLaterPair ==
    /\ ValueAsked
    /\ unit.type = "int"
    /\ IdOfPair(unit.mark) = "dirt"
    /\ KeyOfPair(unit.mark) = "a"
    /\ unit.path = <<"block_state", "stone", "int", "c">>

\* A line with one pair: the path is the one of the pair.
PathOfOnlyPair ==
    /\ ValueAsked
    /\ Cardinality({j \in 1 .. Len(ac_marks) :
                       ac_marks[j].node = unit.spec \o ".states.content.key"}) = 1
    /\ unit.path = <<"block_state", IdOfPair(unit.mark), unit.type, KeyOfPair(unit.mark)>>

\* The value of the first pair of `stone ["a":1 ,"b":"x"]`: its suggestions
\* are looked up under the key b.
PathOfSecondKey ==
    /\ ValueAsked
    /\ src = W_block \o <<"s", "t", "o", "n", "e", " ", "[", DQ, "a", DQ, ":", "1", " ", ",",
                          DQ, "b", DQ, ":", DQ, "x", DQ, "]", NL>>
    /\ unit.type = "int"
    /\ KeyOfPair(unit.mark) = "a"
    /\ unit.path = <<"block_state", "stone", "int", "b">>

=============================================================================
